---- MODULE Spec2Model ----
(***************************************************************************)
(* Sales-order analytics backend (server.js): the POST /api/orders         *)
(* handler with its response cache (node-cache), the per-environment       *)
(* bearer-token cache, the paginated order_search loop and the cache       *)
(* management endpoints.                                                   *)
(*                                                                         *)
(* Strings are sequences of one-character strings, so that template        *)
(* literals, toUpperCase, sort and join are computed as the code computes  *)
(* them.  The empty sequence stands for every falsy string value           *)
(* (undefined, null, '').  Times are milliseconds, as Date.now() gives.    *)
(***************************************************************************)
EXTENDS Integers, Sequences, FiniteSets, TLC

VARIABLES
    now,         \* wall clock, ms (Date.now())
    tokenCache,  \* tokenCache[DEV|PRD] = {accessToken, tokenExpiresAt}
    orderCache,  \* the NodeCache instance: data (key -> {v, t}) and stats
    req,         \* the in-flight and finished POST /api/orders invocations
    events,      \* requests received, clock advances and management calls so far
    stored,      \* history: per key, the last orderCache.set not yet cleared
    refreshed,   \* history: per environment, the last successful exchange
    remote,      \* the upstream order_search service (its behaviour)
    admin,       \* the last response of a cache-management endpoint
    kin,         \* the arguments of the function under examination (generateCacheKey,
                 \* buildTermQueries, processOrderData)
    kout,        \* its results, empty until it has been called
    app          \* the state of the frontend's App component and its requests in flight

serverVars == <<now, tokenCache, orderCache, req, events, stored, refreshed, remote, admin>>
keyVars == <<kin, kout>>
vars == <<now, tokenCache, orderCache, req, events, stored, refreshed, remote, admin, kin, kout, app>>

(***************************************************************************)
(* Bounds of the model.                                                    *)
(***************************************************************************)
MaxEvents == 4
MaxPages == 3

Reqs == {1, 2}

(***************************************************************************)
(* Strings.                                                                *)
(***************************************************************************)
\* The characters in use, in UTF-16 code unit order.
CharOrder ==
    <<" ", ",", "0", "1", "2", "3", "4", "5", "6", "7", "8", "9", ":",
      "A", "B", "C", "D", "E", "F", "G", "H", "I", "J", "K", "L", "M",
      "N", "O", "P", "Q", "R", "S", "T", "U", "V", "W", "X", "Y", "Z", "_",
      "a", "b", "c", "d", "e", "f", "g", "h", "i", "j", "k", "l", "m",
      "n", "o", "p", "q", "r", "s", "t", "u", "v", "w", "x", "y", "z">>

Code(c) == CHOOSE i \in 1..Len(CharOrder) : CharOrder[i] = c

UpperLetters ==
    <<"A", "B", "C", "D", "E", "F", "G", "H", "I", "J", "K", "L", "M",
      "N", "O", "P", "Q", "R", "S", "T", "U", "V", "W", "X", "Y", "Z">>

LowerLetters ==
    <<"a", "b", "c", "d", "e", "f", "g", "h", "i", "j", "k", "l", "m",
      "n", "o", "p", "q", "r", "s", "t", "u", "v", "w", "x", "y", "z">>

\* String.prototype.toUpperCase, per character.
UpperChar(c) ==
    IF \E i \in 1..26 : LowerLetters[i] = c
    THEN UpperLetters[CHOOSE i \in 1..26 : LowerLetters[i] = c]
    ELSE c

toUpperCase(s) == [i \in 1..Len(s) |-> UpperChar(s[i])]

\* a < b in the order Array.prototype.sort uses by default (code units,
\* a proper prefix first).
RECURSIVE StrLess(_, _)
StrLess(a, b) ==
    IF b = <<>> THEN FALSE
    ELSE IF a = <<>> THEN TRUE
    ELSE IF a[1] # b[1] THEN Code(a[1]) < Code(b[1])
    ELSE StrLess(Tail(a), Tail(b))

\* Array.prototype.join.
RECURSIVE join(_, _)
join(parts, sep) ==
    IF parts = <<>> THEN <<>>
    ELSE IF Len(parts) = 1 THEN parts[1]
    ELSE parts[1] \o sep \o join(Tail(parts), sep)

\* Array.prototype.sort() of an array of distinct strings.
RECURSIVE InsertSorted(_, _)
InsertSorted(x, s) ==
    IF s = <<>> THEN <<x>>
    ELSE IF StrLess(x, s[1]) THEN <<x>> \o s
    ELSE <<s[1]>> \o InsertSorted(x, Tail(s))

RECURSIVE sort(_)
sort(s) == IF s = <<>> THEN <<>> ELSE InsertSorted(s[1], sort(Tail(s)))

S_orders == <<"o", "r", "d", "e", "r", "s">>
S_orderType == <<"o", "r", "d", "e", "r", "T", "y", "p", "e">>
S_Prepaid == <<"P", "r", "e", "p", "a", "i", "d">>
S_DEV == <<"D", "E", "V">>
S_PRD == <<"P", "R", "D">>
S_channel == <<"c", "h", "a", "n", "n", "e", "l">>

(***************************************************************************)
(* Objects: a plain object is the sequence of its <<key, value>> entries   *)
(* in insertion order, with distinct keys.                                 *)
(***************************************************************************)
ObjectKeys(o) == [i \in 1..Len(o) |-> o[i][1]]

HasKey(o, k) == \E i \in 1..Len(o) : o[i][1] = k

\* o[k], the empty string when the key is absent (undefined)
Get(o, k) == IF HasKey(o, k) THEN o[CHOOSE i \in 1..Len(o) : o[i][1] = k][2] ELSE <<>>

\* o[k] = v: an existing key keeps its place
Put(o, k, v) ==
    IF HasKey(o, k) THEN [i \in 1..Len(o) |-> IF o[i][1] = k THEN <<k, v>> ELSE o[i]]
    ELSE Append(o, <<k, v>>)

\* { ...a, ...b }
RECURSIVE Spread(_, _)
Spread(a, b) == IF b = <<>> THEN a ELSE Spread(Put(a, b[1][1], b[1][2]), Tail(b))

\* x || d
OrElse(x, d) == IF x = <<>> THEN d ELSE x

(***************************************************************************)
(* generateCacheKey                                                        *)
(***************************************************************************)
\* the keys in the order the caller gave them
KeyOrderAsGiven(requestData) == ObjectKeys(requestData)

KeyOrder(requestData) == sort(ObjectKeys(requestData))

FilterEntry(requestData, key) == key \o <<":">> \o OrElse(Get(requestData, key), <<>>)

generateCacheKey(startDate, endDate, requestData, environment) ==
    LET keys == KeyOrder(requestData)
        filterValues == join([i \in 1..Len(keys) |-> FilterEntry(requestData, keys[i])], <<"_">>)
    IN S_orders \o <<"_">> \o environment \o <<"_">> \o startDate \o <<"_">> \o endDate
         \o <<"_">> \o filterValues

(***************************************************************************)
(* Configurable term query fields and buildTermQueries                     *)
(***************************************************************************)
\* String.prototype.toLowerCase, per character
LowerChar(c) ==
    IF \E i \in 1..26 : UpperLetters[i] = c
    THEN LowerLetters[CHOOSE i \in 1..26 : UpperLetters[i] = c]
    ELSE c

toLowerCase(s) == [i \in 1..Len(s) |-> LowerChar(s[i])]

\* String.prototype.startsWith
startsWith(s, prefix) == Len(s) >= Len(prefix) /\ SubSeq(s, 1, Len(prefix)) = prefix

\* String.prototype.trim (the blank is the white space in use)
RECURSIVE trim(_)
trim(s) ==
    IF s = <<>> THEN <<>>
    ELSE IF s[1] = " " THEN trim(Tail(s))
    ELSE IF s[Len(s)] = " " THEN trim(SubSeq(s, 1, Len(s) - 1))
    ELSE s

S_TERM_QUERY_FIELD_ ==
    <<"T", "E", "R", "M", "_", "Q", "U", "E", "R", "Y", "_", "F", "I", "E", "L", "D", "_">>
S_VALUES == <<"_", "V", "A", "L", "U", "E", "S">>
S_order_type == <<"o", "r", "d", "e", "r", "_", "t", "y", "p", "e">>
S_customer_type == <<"c", "u", "s", "t", "o", "m", "e", "r", "_", "t", "y", "p", "e">>
S_customerType == <<"c", "u", "s", "t", "o", "m", "e", "r", "T", "y", "p", "e">>
S_region == <<"r", "e", "g", "i", "o", "n">>
S_store_id == <<"s", "t", "o", "r", "e", "_", "i", "d">>
S_storeId == <<"s", "t", "o", "r", "e", "I", "d">>
S_status == <<"s", "t", "a", "t", "u", "s">>
S_created == <<"c", "r", "e", "a", "t", "e", "d">>
S_failed == <<"f", "a", "i", "l", "e", "d">>

\* key.replace('TERM_QUERY_FIELD_', '').toLowerCase() of a key that starts with the prefix
FieldKeyOf(key) == toLowerCase(SubSeq(key, Len(S_TERM_QUERY_FIELD_) + 1, Len(key)))

\* getConfigurableTermQueryFields over the entries of process.env
RECURSIVE ConfigurableFieldsFrom(_, _)
ConfigurableFieldsFrom(env, fields) ==
    IF env = <<>> THEN fields
    ELSE LET key == env[1][1]
             fieldValue == env[1][2]
         IN IF startsWith(key, S_TERM_QUERY_FIELD_) /\ fieldValue # <<>>
            THEN ConfigurableFieldsFrom(Tail(env), Put(fields, FieldKeyOf(key), fieldValue))
            ELSE ConfigurableFieldsFrom(Tail(env), fields)

getConfigurableTermQueryFields(env) == ConfigurableFieldsFrom(env, <<>>)

\* String.prototype.split(sep), sep one character
RECURSIVE SplitFrom(_, _, _)
SplitFrom(s, sep, current) ==
    IF s = <<>> THEN <<current>>
    ELSE IF s[1] = sep THEN <<current>> \o SplitFrom(Tail(s), sep, <<>>)
    ELSE SplitFrom(Tail(s), sep, Append(current, s[1]))

split(s, sep) == SplitFrom(s, sep, <<>>)

\* the options with their empty items left in
FieldOptionsUnfiltered(envValue) ==
    LET items == split(envValue, ",") IN [i \in 1..Len(items) |-> trim(items[i])]

\* envValue.split(',').map(option => option.trim()).filter(option => option !== '')
FieldOptions(envValue) ==
    LET items == split(envValue, ",")
    IN SelectSeq([i \in 1..Len(items) |-> trim(items[i])], LAMBDA option : option # <<>>)

getFieldOptionsFromEnv(fieldKey, env) ==
    LET envKey == S_TERM_QUERY_FIELD_ \o toUpperCase(fieldKey) \o S_VALUES
        envValue == Get(env, envKey)
    IN IF envValue # <<>> /\ trim(envValue) # <<>> THEN FieldOptions(envValue) ELSE <<>>

\* fieldKey.replace(/_/g, ' ').replace(/\b\w/g, l => l.toUpperCase())
TitleCase(fieldKey) ==
    [i \in 1..Len(fieldKey) |->
        IF fieldKey[i] = "_" THEN " "
        ELSE IF i = 1 \/ fieldKey[i - 1] = "_" THEN UpperChar(fieldKey[i])
        ELSE fieldKey[i]]

\* fieldLabels[fieldKey] || ...
FieldLabel(fieldKey) ==
    CASE fieldKey = S_order_type -> <<"O", "r", "d", "e", "r", " ", "T", "y", "p", "e">>
      [] fieldKey = S_customer_type ->
             <<"C", "u", "s", "t", "o", "m", "e", "r", " ", "T", "y", "p", "e">>
      [] fieldKey = S_channel -> <<"C", "h", "a", "n", "n", "e", "l">>
      [] fieldKey = S_region -> <<"R", "e", "g", "i", "o", "n">>
      [] fieldKey = S_store_id -> <<"S", "t", "o", "r", "e", " ", "I", "D">>
      [] OTHER -> TitleCase(fieldKey)

\* the forEach of GET /api/config/fields
RECURSIVE AvailableFieldsFrom(_, _, _)
AvailableFieldsFrom(configurableFields, env, availableFields) ==
    IF configurableFields = <<>> THEN availableFields
    ELSE LET fieldKey == configurableFields[1][1]
             options == getFieldOptionsFromEnv(fieldKey, env)
         IN AvailableFieldsFrom(Tail(configurableFields), env,
                IF Len(options) > 0
                THEN Put(availableFields, fieldKey,
                         [apiField |-> configurableFields[1][2],
                          label |-> FieldLabel(fieldKey),
                          options |-> options])
                ELSE availableFields)

\* GET /api/config/fields
ConfigFields(env) ==
    [status |-> 200, success |-> TRUE,
     fields |-> AvailableFieldsFrom(getConfigurableTermQueryFields(env), env, <<>>)]

\* the switch of buildTermQueries: the request property a field key reads
RequestProperty(fieldKey) ==
    CASE fieldKey = S_order_type -> S_orderType
      [] fieldKey = S_customer_type -> S_customerType
      [] fieldKey = S_channel -> S_channel
      [] fieldKey = S_region -> S_region
      [] fieldKey = S_store_id -> S_storeId
      [] OTHER -> fieldKey

\* the status filter that is always included
StatusQuery == [fields |-> <<S_status>>, operator |-> "not_in", values |-> <<S_created, S_failed>>]

TermQuery(fieldName, fieldValue) ==
    [fields |-> <<fieldName>>, operator |-> "is", values |-> <<fieldValue>>]

\* the test without the trim
FieldSuppliedUntrimmed(fieldValue) == fieldValue # <<>>

\* if (fieldValue && fieldValue.trim() !== '')
FieldSupplied(fieldValue) == fieldValue # <<>> /\ trim(fieldValue) # <<>>

\* Object.keys(configurableFields).forEach(...)
RECURSIVE TermQueriesFrom(_, _, _)
TermQueriesFrom(requestData, configurableFields, termQueries) ==
    IF configurableFields = <<>> THEN termQueries
    ELSE LET fieldKey == configurableFields[1][1]
             fieldName == configurableFields[1][2]
             fieldValue == Get(requestData, RequestProperty(fieldKey))
         IN TermQueriesFrom(requestData, Tail(configurableFields),
                IF FieldSupplied(fieldValue)
                THEN Append(termQueries, TermQuery(fieldName, fieldValue))
                ELSE termQueries)

buildTermQueries(requestData, configurableFields) ==
    TermQueriesFrom(requestData, configurableFields, <<StatusQuery>>)

(***************************************************************************)
(* processOrderData.  A hit's data is a record: creation_date (a string),  *)
(* order_total and the product items' quantities (integers), guest         *)
(* ("true", "false" or "absent") and payment_instruments (present or not,  *)
(* the list of payment_method_id).  A quotient is a reduced fraction       *)
(* <<numerator, denominator>>; <<0, 0>> is NaN.                            *)
(***************************************************************************)
\* the time of day kept in the key
DatePartWhole(creation_date) == creation_date

\* creation_date.split('T')[0]
RECURSIVE DatePart(_)
DatePart(creation_date) ==
    IF creation_date = <<>> \/ creation_date[1] = "T" THEN <<>>
    ELSE <<creation_date[1]>> \o DatePart(Tail(creation_date))

\* a match in any payment instrument
MatchesAnyInstrument(order, paymentMethod) ==
    /\ order.payment_instruments.present
    /\ \E i \in 1..Len(order.payment_instruments.list) :
           order.payment_instruments.list[i] = paymentMethod

\* order.payment_instruments && order.payment_instruments.length > 0 &&
\* order.payment_instruments[0].payment_method_id === paymentMethod
MatchesPaymentMethod(order, paymentMethod) ==
    /\ order.payment_instruments.present
    /\ Len(order.payment_instruments.list) > 0
    /\ order.payment_instruments.list[1] = paymentMethod

RECURSIVE Filter(_, _)
Filter(hits, paymentMethod) ==
    IF hits = <<>> THEN <<>>
    ELSE IF MatchesPaymentMethod(hits[1], paymentMethod)
    THEN <<hits[1]>> \o Filter(Tail(hits), paymentMethod)
    ELSE Filter(Tail(hits), paymentMethod)

\* if (paymentMethod && paymentMethod.trim() !== '') filteredHits = hits.filter(...)
FilteredHits(hits, paymentMethod) ==
    IF paymentMethod # <<>> /\ trim(paymentMethod) # <<>>
    THEN Filter(hits, paymentMethod)
    ELSE hits

\* order.product_items.reduce((sum, item) => sum + item.quantity, 0)
RECURSIVE OrderUnits(_)
OrderUnits(product_items) ==
    IF product_items = <<>> THEN 0 ELSE product_items[1] + OrderUnits(Tail(product_items))

\* everything but an explicit false taken for a guest
IsGuestUnlessFalse(order) == order.guest # "false"

\* if (order.guest)
IsGuest(order) == order.guest = "true"

NewDay == [orders |-> 0, revenue |-> 0, units |-> 0]

NewBreakdown == [new |-> 0, returning |-> 0, registered |-> 0, unregistered |-> 0]

NewTotals ==
    [dailyMetrics |-> <<>>, customerBreakdown |-> NewBreakdown, totalRevenue |-> 0, totalUnits |-> 0]

\* dailyMetrics[date], once initialised
DayOf(dailyMetrics, date) ==
    IF HasKey(dailyMetrics, date)
    THEN dailyMetrics[CHOOSE i \in 1..Len(dailyMetrics) : dailyMetrics[i][1] = date][2]
    ELSE NewDay

\* the body of filteredHits.forEach
Accumulate(acc, order) ==
    LET date == DatePart(order.creation_date)
        orderUnits == OrderUnits(order.product_items)
        day == DayOf(acc.dailyMetrics, date)
        cb == acc.customerBreakdown
    IN [dailyMetrics |->
            Put(acc.dailyMetrics, date,
                [orders |-> day.orders + 1, revenue |-> day.revenue + order.order_total,
                 units |-> day.units + orderUnits]),
        customerBreakdown |->
            IF IsGuest(order)
            THEN [cb EXCEPT !.new = @ + 1, !.unregistered = @ + 1]
            ELSE [cb EXCEPT !.returning = @ + 1, !.registered = @ + 1],
        totalRevenue |-> acc.totalRevenue + order.order_total,
        totalUnits |-> acc.totalUnits + orderUnits]

RECURSIVE ForEach(_, _)
ForEach(filteredHits, acc) ==
    IF filteredHits = <<>> THEN acc
    ELSE ForEach(Tail(filteredHits), Accumulate(acc, filteredHits[1]))

RECURSIVE GCD(_, _)
GCD(a, b) == IF b = 0 THEN a ELSE GCD(b, a % b)

\* a / b
Quotient(a, b) ==
    IF b = 0 THEN <<0, 0>>
    ELSE IF a = 0 THEN <<0, 1>>
    ELSE <<a \div GCD(a, b), b \div GCD(a, b)>>

\* the division without its guard
AverageUnguarded(sum, totalOrders) == Quotient(sum, totalOrders)

\* totalOrders > 0 ? sum / totalOrders : 0
Average(sum, totalOrders) == IF totalOrders > 0 THEN Quotient(sum, totalOrders) ELSE Quotient(0, 1)

\* the orders counted before the filter
TotalOrdersUnfiltered(hits, filteredHits) == Len(hits)

\* let totalOrders = filteredHits.length
TotalOrders(hits, filteredHits) == Len(filteredHits)

processOrderData(hits, paymentMethod) ==
    LET filteredHits == FilteredHits(hits, paymentMethod)
        totalOrders == TotalOrders(hits, filteredHits)
        acc == ForEach(filteredHits, NewTotals)
    IN [dailyMetrics |-> acc.dailyMetrics,
        customerBreakdown |-> acc.customerBreakdown,
        kpis |-> [totalOrders |-> totalOrders,
                  totalRevenue |-> acc.totalRevenue,
                  totalUnits |-> acc.totalUnits,
                  avgOrderValue |-> Average(acc.totalRevenue, totalOrders),
                  avgUnitsPerTransaction |-> Average(acc.totalUnits, totalOrders)]]

(***************************************************************************)
(* The frontend (App.js): its own processOrderData and the order table.    *)
(***************************************************************************)
\* the filter predicate of getFilteredOrders
App_TableMatches(order, paymentMethod) ==
    /\ order.payment_instruments.present
    /\ Len(order.payment_instruments.list) > 0
    /\ order.payment_instruments.list[1] = paymentMethod

\* getFilteredOrders: the rows of the order table
getFilteredOrders(rawData, paymentMethod) ==
    IF rawData = <<>> THEN <<>>
    ELSE IF paymentMethod # <<>> /\ trim(paymentMethod) # <<>>
    THEN SelectSeq(rawData, LAMBDA hit : App_TableMatches(hit, paymentMethod))
    ELSE rawData

\* a client aggregator that adds the order total to the day but not to the KPI
App_RevenueOfNone(order) == 0

\* totalRevenue += order.order_total
App_RevenueOf(order) == order.order_total

\* the filter predicate of the frontend's processOrderData
App_Matches(order, paymentMethodFilter) ==
    /\ order.payment_instruments.present
    /\ Len(order.payment_instruments.list) > 0
    /\ order.payment_instruments.list[1] = paymentMethodFilter

\* the frontend's filteredHits
App_FilteredHits(hits, paymentMethodFilter) ==
    IF paymentMethodFilter # <<>> /\ trim(paymentMethodFilter) # <<>>
    THEN SelectSeq(hits, LAMBDA hit : App_Matches(hit, paymentMethodFilter))
    ELSE hits

\* the frontend's order.creation_date.split('T')[0]
App_DatePart(creation_date) ==
    IF \E k \in 1..Len(creation_date) : creation_date[k] = "T"
    THEN SubSeq(creation_date, 1,
                (CHOOSE k \in 1..Len(creation_date) :
                    creation_date[k] = "T" /\ \A j \in 1..(k - 1) : creation_date[j] # "T") - 1)
    ELSE creation_date

\* the frontend's order.product_items.reduce(...)
RECURSIVE App_OrderUnits(_, _)
App_OrderUnits(product_items, sum) ==
    IF product_items = <<>> THEN sum
    ELSE App_OrderUnits(Tail(product_items), sum + product_items[1])

\* the state of the frontend's accumulators after the first n filtered hits
RECURSIVE App_After(_, _)
App_After(filteredHits, n) ==
    IF n = 0
    THEN [dailyMetrics |-> <<>>,
          customerBreakdown |-> [new |-> 0, returning |-> 0, registered |-> 0, unregistered |-> 0],
          totalRevenue |-> 0, totalUnits |-> 0]
    ELSE LET acc == App_After(filteredHits, n - 1)
             order == filteredHits[n]
             date == App_DatePart(order.creation_date)
             orderUnits == App_OrderUnits(order.product_items, 0)
             day == IF HasKey(acc.dailyMetrics, date)
                    THEN acc.dailyMetrics[CHOOSE i \in 1..Len(acc.dailyMetrics) :
                                              acc.dailyMetrics[i][1] = date][2]
                    ELSE [orders |-> 0, revenue |-> 0, units |-> 0]
             cb == acc.customerBreakdown
         IN [dailyMetrics |->
                 Put(acc.dailyMetrics, date,
                     [orders |-> day.orders + 1, revenue |-> day.revenue + order.order_total,
                      units |-> day.units + orderUnits]),
             customerBreakdown |->
                 IF order.guest = "true"
                 THEN [cb EXCEPT !.new = @ + 1, !.unregistered = @ + 1]
                 ELSE [cb EXCEPT !.returning = @ + 1, !.registered = @ + 1],
             totalRevenue |-> acc.totalRevenue + App_RevenueOf(order),
             totalUnits |-> acc.totalUnits + orderUnits]

\* the frontend's processOrderData(hits, paymentMethodFilter)
App_processOrderData(hits, paymentMethodFilter) ==
    LET filteredHits == App_FilteredHits(hits, paymentMethodFilter)
        totalOrders == Len(filteredHits)
        acc == App_After(filteredHits, totalOrders)
    IN [dailyMetrics |-> acc.dailyMetrics,
        customerBreakdown |-> acc.customerBreakdown,
        kpis |-> [totalOrders |-> totalOrders,
                  totalRevenue |-> acc.totalRevenue,
                  totalUnits |-> acc.totalUnits,
                  avgOrderValue |->
                      IF totalOrders > 0 THEN Quotient(acc.totalRevenue, totalOrders)
                      ELSE Quotient(0, 1),
                  avgUnitsPerTransaction |->
                      IF totalOrders > 0 THEN Quotient(acc.totalUnits, totalOrders)
                      ELSE Quotient(0, 1)]]

(***************************************************************************)
(* orderCache: new NodeCache({ stdTTL: 1800, checkperiod: 60 }).           *)
(* node-cache keeps, per key, the value v and the instant t = set time +   *)
(* ttl * 1000 after which the entry is dead; get() checks t at read time   *)
(* and drops a dead entry; the periodic check drops the dead entries.      *)
(***************************************************************************)
stdTTL == 1800

Undefined == [hits |-> <<>>, undefined |-> TRUE]

EmptyMap == [k \in {} |-> 0]

Without(f, ks) == [k \in DOMAIN f \ ks |-> f[k]]

With(f, k, v) == [x \in DOMAIN f \cup {k} |-> IF x = k THEN v ELSE f[x]]

NewNodeCache == [data |-> EmptyMap, hits |-> 0, misses |-> 0]

\* _check: an entry is dead once Date.now() is past its t
Expired(entry, t) == entry.t < t

\* the entry lives for ttl seconds from the set
Livetime(t, ttl) == t + ttl * 1000

\* a get that leaves expiry to the periodic check
NodeCacheGetUnchecked(c, key, t) ==
    IF key \in DOMAIN c.data
    THEN <<[c EXCEPT !.hits = @ + 1], c.data[key].v>>
    ELSE <<[c EXCEPT !.misses = @ + 1], Undefined>>

\* orderCache.get(key): <<cache afterwards, value or Undefined>>
NodeCacheGet(c, key, t) ==
    IF key \in DOMAIN c.data /\ ~Expired(c.data[key], t)
    THEN <<[c EXCEPT !.hits = @ + 1], c.data[key].v>>
    ELSE <<[c EXCEPT !.misses = @ + 1, !.data = Without(@, {key})], Undefined>>

\* orderCache.set(key, value)
NodeCacheSet(c, key, value, t) ==
    [c EXCEPT !.data = With(@, key, [v |-> value, t |-> Livetime(t, stdTTL)])]

\* orderCache.keys()
NodeCacheKeys(c) == DOMAIN c.data

\* a del that drops every entry once the key is found
NodeCacheDelDropsAll(c, key) ==
    IF key \in DOMAIN c.data
    THEN <<[c EXCEPT !.data = EmptyMap], 1>>
    ELSE <<c, 0>>

\* orderCache.del(key): <<cache afterwards, number of entries deleted>>
NodeCacheDel(c, key) ==
    IF key \in DOMAIN c.data
    THEN <<[c EXCEPT !.data = Without(@, {key})], 1>>
    ELSE <<c, 0>>

\* a flush that resets the statistics only
NodeCacheFlushStatsOnly(c) == [c EXCEPT !.hits = 0, !.misses = 0]

\* orderCache.flushAll(): the data and the statistics start afresh
NodeCacheFlushAll(c) == NewNodeCache

\* GET /api/cache/stats: orderCache.getStats() and orderCache.keys().length
CacheStats(c) == [hits |-> c.hits, misses |-> c.misses, totalKeys |-> Cardinality(NodeCacheKeys(c))]

\* the periodic check (every checkperiod seconds)
NodeCacheCheckData(c, t) ==
    [c EXCEPT !.data = Without(@, {k \in DOMAIN c.data : Expired(c.data[k], t)})]

(***************************************************************************)
(* Token cache and getAccessToken                                          *)
(***************************************************************************)
Null == <<>>

NewTokenCache == [e \in {S_DEV, S_PRD} |-> [accessToken |-> Null, tokenExpiresAt |-> Null]]

S_API_BASE_URL_ == <<"A", "P", "I", "_", "B", "A", "S", "E", "_", "U", "R", "L", "_">>
S_CLIENT_ID_ == <<"C", "L", "I", "E", "N", "T", "_", "I", "D", "_">>
S_AUTH_HEADER_ == <<"A", "U", "T", "H", "_", "H", "E", "A", "D", "E", "R", "_">>

\* getEnvironmentConfig under the process environment penv; a variable that is
\* not set reads as undefined
getEnvironmentConfig(environment, penv) ==
    LET env == OrElse(environment, S_DEV)
        prefix == toUpperCase(env)
    IN [apiBaseUrl |-> Get(penv, S_API_BASE_URL_ \o prefix),
        clientId |-> Get(penv, S_CLIENT_ID_ \o prefix),
        authHeader |-> Get(penv, S_AUTH_HEADER_ \o prefix)]

\* one slot for every environment
TokenCacheKeySingle(environment) == S_DEV

\* the slot named as the caller wrote it
TokenCacheKeyAsGiven(environment) == OrElse(environment, S_DEV)

\* const cacheKey = (environment || 'DEV').toUpperCase()
TokenCacheKey(environment) == toUpperCase(OrElse(environment, S_DEV))

\* the comparison turned round
TokenIsValidReversed(envCache, t) ==
    /\ envCache.accessToken # Null
    /\ envCache.tokenExpiresAt # Null
    /\ t > envCache.tokenExpiresAt[1]

\* envCache.accessToken && envCache.tokenExpiresAt && new Date() < envCache.tokenExpiresAt
TokenIsValid(envCache, t) ==
    /\ envCache.accessToken # Null
    /\ envCache.tokenExpiresAt # Null
    /\ t < envCache.tokenExpiresAt[1]

\* the expiry without the safety margin
TokenExpiresAtNoMargin(t, expires_in) == t + expires_in * 1000

\* new Date(new Date().getTime() + (expires_in - 60) * 1000)
TokenExpiresAt(t, expires_in) == t + (expires_in - 60) * 1000

\* a store that writes the token but keeps an expiry that is already there
StoreTokenKeepsExpiry(envCache, response, t) ==
    [accessToken |-> response.access_token,
     tokenExpiresAt |-> IF envCache.tokenExpiresAt # Null THEN envCache.tokenExpiresAt
                        ELSE <<t + (response.expires_in - 60) * 1000>>]

\* a store that keeps a token another call has put there in the meantime
StoreTokenFirstWins(envCache, response, t) ==
    IF envCache.accessToken # Null THEN envCache
    ELSE [accessToken |-> response.access_token,
          tokenExpiresAt |-> <<t + (response.expires_in - 60) * 1000>>]

\* the two assignments after a successful exchange
StoreToken(envCache, response, t) ==
    [accessToken |-> response.access_token,
     tokenExpiresAt |-> <<TokenExpiresAt(t, response.expires_in)>>]

\* an error that does not say which environment failed
TokenErrorAnonymous(cacheKey) == [kind |-> "token", env |-> Null]

\* the Error getAccessToken throws from its catch block
TokenError(cacheKey) == [kind |-> "token", env |-> cacheKey]

\* envCache is undefined for a name that is no key of tokenCache
TypeError == [kind |-> "type", env |-> Null]

NoError == [kind |-> "none", env |-> Null]

(***************************************************************************)
(* The upstream order_search service.  A search request carries start and  *)
(* count; the response carries hits and total.  A record is identified by  *)
(* its position in the upstream's result list.                             *)
(***************************************************************************)
PageSize == 200

\* the records at positions start+1 .. start+n
Records(start, n) == [i \in 1..n |-> start + i]

Min(a, b) == IF a < b THEN a ELSE b

Max(a, b) == IF a > b THEN a ELSE b

\* what a well-behaved upstream holding T records answers
HonestPage(T, start, count) == [n |-> Min(count, Max(T - start, 0)), total |-> T]

\* the answers of an upstream that need not be consistent: <<hits.length, total>>
LoosePages == {[n |-> 0, total |-> 0], [n |-> 1, total |-> 1], [n |-> 1, total |-> 2], [n |-> 0, total |-> 2]}

PagesOf(rm, start, count) ==
    IF rm.honest THEN {HonestPage(rm.total, start, count)} ELSE LoosePages

\* the OAuth endpoint's successful answers
Tokens == {<<"a">>, <<"z">>}

Lifetimes == {60, 61, 3600}

OAuthResponses == [access_token : Tokens, expires_in : Lifetimes]

(***************************************************************************)
(* POST /api/orders                                                        *)
(***************************************************************************)
S_d1 == <<"1">>
S_d2 == <<"2">>

Body(startDate, endDate, environment, otherFilters) ==
    [startDate |-> startDate, endDate |-> endDate, environment |-> environment,
     otherFilters |-> otherFilters]

\* the request bodies the clients send
Bodies ==
    { Body(S_d1, S_d2, <<>>, <<>>),
      Body(S_d1, S_d2, S_PRD, <<>>),
      Body(<<>>, S_d2, S_DEV, <<>>),
      Body(S_d1, <<>>, S_DEV, <<>>) }

NoBody == Body(<<>>, <<>>, <<>>, <<>>)

NoResponse == [status |-> 0, hits |-> <<>>, error |-> FALSE]

Json(status, responseData) == [status |-> status, hits |-> responseData.hits, error |-> FALSE]

ErrorJson(status) == [status |-> status, hits |-> <<>>, error |-> TRUE]

Idle ==
    [pc |-> "idle", body |-> NoBody, cacheKey |-> <<>>, env |-> <<>>, token |-> Null,
     allHits |-> <<>>, start |-> 0, total |-> 0, lastLen |-> 0,
     sent |-> <<>>, oauth |-> 0, caught |-> NoError, res |-> NoResponse,
     cleared |-> FALSE]

\* only the start date checked
StartDateMissing(body) == body.startDate = <<>>

\* if (!startDate || !endDate)
DatesMissing(body) == body.startDate = <<>> \/ body.endDate = <<>>

\* const selectedEnvironment = environment || 'DEV'
SelectedEnvironment(body) == OrElse(body.environment, S_DEV)

\* { orderType: otherFilters.orderType || 'Prepaid', ...otherFilters }
RequestData(body) ==
    Spread(<<<<S_orderType, OrElse(Get(body.otherFilters, S_orderType), S_Prepaid)>>>>,
           body.otherFilters)

CacheKeyOf(body) ==
    generateCacheKey(body.startDate, body.endDate, RequestData(body), SelectedEnvironment(body))

\* an empty result taken for no result
IsCachedNonEmpty(cachedData) == cachedData # Undefined /\ cachedData.hits # <<>>

\* if (cachedData)
IsCached(cachedData) == cachedData # Undefined

\* a result that does not replace one already cached
CacheResultFirstWins(c, cacheKey, responseData, t) ==
    IF cacheKey \in DOMAIN c.data THEN c ELSE NodeCacheSet(c, cacheKey, responseData, t)

\* the result returned without being cached
CacheResultSkipped(c, cacheKey, responseData, t) == c

\* orderCache.set(cacheKey, responseData)
CacheResult(c, cacheKey, responseData, t) == NodeCacheSet(c, cacheKey, responseData, t)

\* the loop test off by one
LoopContinuesInclusive(start, total, fetched) == start <= total /\ fetched <= total

\* } while (start < total && allHits.length < total)
LoopContinues(start, total, fetched) == start < total /\ fetched < total

\* the offset set to the size of the last page
NextStartLastPage(start, n) == n

\* start += responseData.hits.length
NextStart(start, n) == start + n

\* the search request of one loop iteration is sent: orderSearchPayload.start = start
SendPage(q) == [q EXCEPT !.pc = "page", !.sent = Append(@, q.start)]

\* the handler has answered: its locals are gone, the response, the exception it
\* caught and the upstream calls it made remain on record
Answered(q, response, error) ==
    [Idle EXCEPT !.pc = "done", !.body = q.body, !.cacheKey = q.cacheKey, !.env = q.env,
                 !.sent = q.sent, !.oauth = q.oauth, !.caught = error, !.res = response]

\* a catch block that answers with what was fetched so far
FailPartial(q, error) == Answered(q, Json(200, [hits |-> q.allHits]), error)

\* the catch block of the handler
Fail(q, error) == Answered(q, ErrorJson(500), error)

\* The handler from its entry to its first await or its response.
Receive(r, body) ==
    /\ req[r].pc \in {"idle", "done"}
    /\ events < MaxEvents
    /\ events' = events + 1
    /\ LET q0 == [Idle EXCEPT !.body = body] IN
       IF DatesMissing(body)
       THEN /\ req' = [req EXCEPT ![r] = Answered(q0, ErrorJson(400), NoError)]
            /\ UNCHANGED orderCache
       ELSE LET env == SelectedEnvironment(body)
                cacheKey == CacheKeyOf(body)
                got == NodeCacheGet(orderCache, cacheKey, now)
                q1 == [q0 EXCEPT !.cacheKey = cacheKey, !.env = env]
                tk == TokenCacheKey(env)
            IN /\ orderCache' = got[1]
               /\ IF IsCached(got[2])
                  THEN req' = [req EXCEPT ![r] = Answered(q1, Json(200, got[2]), NoError)]
                  ELSE IF tk \notin DOMAIN tokenCache
                  THEN req' = [req EXCEPT ![r] = Fail(q1, TypeError)]
                  ELSE IF TokenIsValid(tokenCache[tk], now)
                  THEN req' = [req EXCEPT ![r] = SendPage([q1 EXCEPT !.token = tokenCache[tk].accessToken])]
                  ELSE req' = [req EXCEPT ![r] = [q1 EXCEPT !.pc = "token", !.oauth = @ + 1]]
    /\ UNCHANGED <<now, tokenCache, stored, refreshed, remote, admin, kin, kout, app>>

\* The credential exchange succeeds: the token is stored and the first page is asked for.
TokenGranted(r, response) ==
    /\ req[r].pc = "token"
    /\ LET tk == TokenCacheKey(req[r].env)
           slot == StoreToken(tokenCache[tk], response, now)
       IN /\ tokenCache' = [tokenCache EXCEPT ![tk] = slot]
          /\ refreshed' = [refreshed EXCEPT ![tk] = <<[at |-> now, response |-> response]>>]
          /\ req' = [req EXCEPT ![r] = SendPage([@ EXCEPT !.token = slot.accessToken])]
    /\ UNCHANGED <<now, orderCache, events, stored, remote, admin, kin, kout, app>>

\* a failed exchange that also forgets the token it had
TokenRefusedClears(r) ==
    /\ req[r].pc = "token"
    /\ req' = [req EXCEPT ![r] = Fail(@, TokenError(TokenCacheKey(req[r].env)))]
    /\ tokenCache' = [tokenCache EXCEPT ![TokenCacheKey(req[r].env)] =
                          [accessToken |-> Null, tokenExpiresAt |-> Null]]
    /\ UNCHANGED <<now, orderCache, events, stored, refreshed, remote, admin, kin, kout, app>>

\* The credential exchange fails: getAccessToken throws, the handler answers 500.
TokenRefused(r) ==
    /\ req[r].pc = "token"
    /\ req' = [req EXCEPT ![r] = Fail(@, TokenError(TokenCacheKey(req[r].env)))]
    /\ UNCHANGED <<now, tokenCache, orderCache, events, stored, refreshed, remote, admin, kin, kout, app>>

\* A page arrives: it is accumulated, and the loop test either sends the next
\* search request or ends the fetch, which caches and returns the result.
PageArrives(r, page) ==
    /\ req[r].pc = "page"
    /\ page.n <= PageSize
    /\ LET q == req[r]
           hits == Records(q.start, page.n)
           allHits == q.allHits \o hits
           start == NextStart(q.start, page.n)
           q1 == [q EXCEPT !.allHits = allHits, !.total = page.total, !.start = start,
                           !.lastLen = page.n]
       IN IF LoopContinues(start, page.total, Len(allHits))
          THEN /\ Len(q.sent) < MaxPages
               /\ req' = [req EXCEPT ![r] = SendPage(q1)]
               /\ UNCHANGED <<orderCache, stored>>
          ELSE LET responseData == [hits |-> allHits, undefined |-> FALSE] IN
               /\ orderCache' = CacheResult(orderCache, q.cacheKey, responseData, now)
               /\ stored' = With(stored, q.cacheKey,
                                 [at |-> now, hits |-> allHits, stale |-> q.cleared])
               /\ req' = [req EXCEPT ![r] = Answered(q1, Json(200, responseData), NoError)]
    /\ UNCHANGED <<now, tokenCache, events, refreshed, remote, admin, kin, kout, app>>

\* A page request fails: axios.post rejects, the handler answers 500.
PageFails(r) ==
    /\ req[r].pc = "page"
    /\ req' = [req EXCEPT ![r] = Fail(@, [kind |-> "fetch", env |-> Null])]
    /\ UNCHANGED <<now, tokenCache, orderCache, events, stored, refreshed, remote, admin, kin, kout, app>>

(***************************************************************************)
(* Cache management endpoints, the periodic check and the clock            *)
(***************************************************************************)
NoAdmin == [op |-> "none", status |-> 0, n |-> 0]

\* history: the requests that are between their cache lookup and their response
\* while a clear of their key completes are marked
NoteClear(keys) ==
    [r \in Reqs |->
        IF req[r].pc \in {"token", "page"} /\ req[r].cacheKey \in keys
        THEN [req[r] EXCEPT !.cleared = TRUE]
        ELSE req[r]]

\* DELETE /api/cache/clear
ClearAll ==
    /\ events < MaxEvents
    /\ events' = events + 1
    /\ LET keyCount == Cardinality(NodeCacheKeys(orderCache)) IN
       /\ orderCache' = NodeCacheFlushAll(orderCache)
       /\ admin' = [op |-> "clear", status |-> 200, n |-> keyCount]
    /\ stored' = EmptyMap
    /\ req' = NoteClear({req[r].cacheKey : r \in Reqs})
    /\ UNCHANGED <<now, tokenCache, refreshed, remote, kin, kout, app>>

\* DELETE /api/cache/clear/:key
ClearOne(key) ==
    /\ events < MaxEvents
    /\ events' = events + 1
    /\ LET del == NodeCacheDel(orderCache, key) IN
       /\ orderCache' = del[1]
       /\ admin' = IF del[2] # 0 THEN [op |-> "clearOne", status |-> 200, n |-> 1]
                                 ELSE [op |-> "clearOne", status |-> 404, n |-> 0]
    /\ stored' = Without(stored, {key})
    /\ req' = NoteClear({key})
    /\ UNCHANGED <<now, tokenCache, refreshed, remote, kin, kout, app>>

\* node-cache's timer
CheckData ==
    /\ orderCache' = NodeCacheCheckData(orderCache, now)
    /\ orderCache' # orderCache
    /\ UNCHANGED <<now, tokenCache, req, events, stored, refreshed, remote, admin, kin, kout, app>>

\* the instants the clock jumps by, ms
TickSteps == {1000, 1800000}

Tick(d) ==
    /\ events < MaxEvents
    /\ events' = events + 1
    /\ now' = now + d
    /\ UNCHANGED <<tokenCache, orderCache, req, stored, refreshed, remote, admin, kin, kout, app>>

\* the keys a client may name in DELETE /api/cache/clear/:key
ClearableKeys == {CacheKeyOf(b) : b \in {x \in Bodies : ~DatesMissing(x)}} \cup {S_orders}

(***************************************************************************)
(* The frontend's App component: its state, its two effects and the        *)
(* requests it has in flight.  A state change and the effects whose        *)
(* dependencies it changes are one step.                                   *)
(***************************************************************************)
NoRawData == <<>>

NoData == <<>>

S_Postpaid == <<"P", "o", "s", "t", "p", "a", "i", "d">>

\* the body of the POST the fetch effect sends
FetchParams(a) ==
    [startDate |-> a.startDate, endDate |-> a.endDate, orderType |-> a.orderType,
     environment |-> a.environment]

\* the useState initial values; inflight, last, steps and rawFor are history: the
\* POSTs not yet answered, the kind of the last event, the number of events so far,
\* and the body of the POST whose answer rawData holds
FirstRender ==
    [startDate |-> S_d1, endDate |-> S_d2, orderType |-> S_Prepaid, environment |-> S_DEV,
     paymentMethod |-> <<>>, rawData |-> NoRawData, data |-> NoData,
     loading |-> TRUE, error |-> FALSE, inflight |-> <<>>, last |-> "mount", steps |-> 0,
     rawFor |-> <<>>]

\* fetchData up to its await
FetchEffect(a) ==
    [a EXCEPT !.loading = TRUE, !.error = FALSE, !.inflight = Append(@, FetchParams(a))]

\* if (rawData) setData(processOrderData(rawData, paymentMethod))
ProcessEffect(a) ==
    IF a.rawData # NoRawData
    THEN [a EXCEPT !.data = <<App_processOrderData(a.rawData[1], a.paymentMethod)>>]
    ELSE a

\* a dependency array that includes the payment method
FetchDepsWithPaymentMethod(a) ==
    <<a.startDate, a.endDate, a.orderType, a.environment, a.paymentMethod>>

\* [startDate, endDate, orderType, environment]
FetchDeps(a) == <<a.startDate, a.endDate, a.orderType, a.environment>>

\* [rawData, paymentMethod]
ProcessDeps(a) == <<a.rawData, a.paymentMethod>>

\* the effects after a render: each runs when one of its dependencies has changed;
\* fresh says that rawData is a new array, whatever it holds
Commit(prev, next, fresh) ==
    LET a1 == IF FetchDeps(prev) # FetchDeps(next) THEN FetchEffect(next) ELSE next
    IN IF fresh \/ ProcessDeps(prev) # ProcessDeps(next) THEN ProcessEffect(a1) ELSE a1

\* after the first render every effect runs
Mounted == ProcessEffect(FetchEffect(FirstRender))

RemoveAt(seq, i) == SubSeq(seq, 1, i - 1) \o SubSeq(seq, i + 1, Len(seq))

\* a state setter called from an onChange handler with a value other than the current one
SetState(next, kind) ==
    /\ app.steps < MaxEvents
    /\ next # app
    /\ app' = Commit(app, [next EXCEPT !.last = kind, !.steps = @ + 1], FALSE)
    /\ UNCHANGED <<kin, kout, serverVars>>

setEnvironment(value) == SetState([app EXCEPT !.environment = value], "select")

setStartDate(value) == SetState([app EXCEPT !.startDate = value], "select")

setEndDate(value) == SetState([app EXCEPT !.endDate = value], "select")

setOrderType(value) == SetState([app EXCEPT !.orderType = value], "select")

setPaymentMethod(value) == SetState([app EXCEPT !.paymentMethod = value], "payment")

\* the POST in flight at position i is answered: setRawData(response.data.hits), then
\* setLoading(false)
FetchResolves(i, hits) ==
    /\ app.steps < MaxEvents
    /\ i \in 1..Len(app.inflight)
    /\ app' = Commit(app, [app EXCEPT !.rawData = <<hits>>, !.loading = FALSE,
                                      !.rawFor = <<app.inflight[i]>>,
                                      !.inflight = RemoveAt(@, i),
                                      !.last = "resolve", !.steps = @ + 1], TRUE)
    /\ UNCHANGED <<kin, kout, serverVars>>

\* the POST in flight at position i fails: setError(...), then setLoading(false)
FetchRejects(i) ==
    /\ app.steps < MaxEvents
    /\ i \in 1..Len(app.inflight)
    /\ app' = Commit(app, [app EXCEPT !.error = TRUE, !.loading = FALSE,
                                      !.inflight = RemoveAt(@, i),
                                      !.last = "reject", !.steps = @ + 1], FALSE)
    /\ UNCHANGED <<kin, kout, serverVars>>

(***************************************************************************)
(* Specifications                                                          *)
(***************************************************************************)
InitServer(rm) ==
    /\ app = Mounted
    /\ now = 0
    /\ tokenCache = NewTokenCache
    /\ orderCache = NewNodeCache
    /\ req = [r \in Reqs |-> Idle]
    /\ events = 0
    /\ stored = EmptyMap
    /\ refreshed = [e \in DOMAIN NewTokenCache |-> <<>>]
    /\ remote = rm
    /\ admin = NoAdmin

\* an upstream that answers anything
Loose == [honest |-> FALSE, total |-> 0]

\* an upstream that holds T records and serves them page by page
Honest(T) == [honest |-> TRUE, total |-> T]

Init == InitServer(Loose) /\ kin = <<>> /\ kout = <<>>

\* the steps of the order requests in slots R, with bodies B and OAuth answers O
Orders(R, B, O) ==
    \/ \E r \in R, b \in B : Receive(r, b)
    \/ \E r \in R, o \in O : TokenGranted(r, o)
    \/ \E r \in R : TokenRefused(r)
    \/ \E r \in R : \E p \in PagesOf(remote, req[r].start, PageSize) : PageArrives(r, p)
    \/ \E r \in R : PageFails(r)

CacheAdmin ==
    \/ ClearAll
    \/ \E k \in ClearableKeys : ClearOne(k)
    \/ CheckData

Clock == \E d \in TickSteps : Tick(d)

LongLived == [access_token |-> <<"a">>, expires_in |-> 3600]

\* Spec: one order request at a time against an upstream that answers anything,
\* with the cache management endpoints, node-cache's timer and the clock.
Next == Orders({1}, Bodies, {LongLived}) \/ CacheAdmin \/ Clock

Spec == Init /\ [][Next]_vars

\* SpecToken: overlapping order requests for both environments, every OAuth answer,
\* the clock; the upstream holds no orders.
TokenBodies == {Body(S_d1, S_d2, <<>>, <<>>), Body(S_d1, S_d2, S_PRD, <<>>)}

InitToken == InitServer(Honest(0)) /\ kin = <<>> /\ kout = <<>>

NextToken == Orders(Reqs, TokenBodies, OAuthResponses) \/ Clock

SpecToken == InitToken /\ [][NextToken]_vars

\* SpecFetch: one order request at a time against an upstream that holds T records,
\* or that answers anything.
MaxFullPages == 2

Totals == {k * PageSize + d : k \in 0..MaxFullPages, d \in {0, 1, 50, 199}}

FetchBodies == {Body(S_d1, S_d2, S_DEV, <<>>)}

InitFetch == ((\E T \in Totals : InitServer(Honest(T))) \/ InitServer(Loose)) /\ kin = <<>> /\ kout = <<>>

NextFetch == Orders({1}, FetchBodies, {LongLived})

SpecFetch == InitFetch /\ [][NextFetch]_vars

\* SpecKey: generateCacheKey on two request objects.
MaxFilters == 2

FilterNames == {S_orderType, S_channel, <<"a">>}

FilterValues == {<<>>, S_Prepaid, <<"1">>}

Distinct(names) == \A i, j \in 1..Len(names) : i # j => names[i] # names[j]

Objects ==
    UNION { {o \in [1..n -> FilterNames \X FilterValues] : Distinct(ObjectKeys(o))} : n \in 0..MaxFilters }

InitKey ==
    /\ InitServer(Loose)
    /\ kin \in [environment : {S_DEV, S_PRD}, startDate : {S_d1}, endDate : {S_d2},
                a : Objects, b : Objects]
    /\ kout = <<>>

ComputeKeys ==
    /\ kout = <<>>
    /\ kout' = <<generateCacheKey(kin.startDate, kin.endDate, kin.a, kin.environment),
                 generateCacheKey(kin.startDate, kin.endDate, kin.b, kin.environment)>>
    /\ UNCHANGED <<kin, serverVars, app>>

NextKey == ComputeKeys

SpecKey == InitKey /\ [][NextKey]_vars

\* SpecTerm: buildTermQueries on a request object, with the configurable fields
\* read from a process environment that declares filter fields the documented way:
\* TERM_QUERY_FIELD_<NAME>=<api field>, TERM_QUERY_FIELD_<NAME>_VALUES=<v1,v2,...>.
MaxFields == 2

S_values12 == <<"1", ",", "2">>

\* the fields a deployment may declare: name, remote field (possibly left empty),
\* permitted values (empty: no values variable)
FieldDecls ==
    [name : {<<"O", "R", "D", "E", "R", "_", "T", "Y", "P", "E">>},
     remote : {<<"t">>}, values : {<<>>, S_values12}]
    \cup [name : {<<"C", "H", "A", "N", "N", "E", "L">>},
          remote : {<<"c">>, <<>>}, values : {<<>>, S_values12}]
    \cup [name : {<<"A">>}, remote : {<<"r">>}, values : {<<>>, S_values12}]

Declarations ==
    UNION { {d \in [1..n -> FieldDecls] : Distinct([i \in 1..n |-> d[i].name])} : n \in 0..MaxFields }

\* the process environment of a deployment: PORT and, per declared field, its
\* variable followed by its values variable
RECURSIVE EnvOf(_)
EnvOf(declared) ==
    IF declared = <<>> THEN << <<<<"P", "O", "R", "T">>, <<"1">>>> >>
    ELSE LET d == declared[Len(declared)]
             rest == EnvOf(SubSeq(declared, 1, Len(declared) - 1))
             field == <<S_TERM_QUERY_FIELD_ \o d.name, d.remote>>
             values == <<S_TERM_QUERY_FIELD_ \o d.name \o S_VALUES, d.values>>
         IN IF d.values = <<>> THEN Append(rest, field) ELSE rest \o <<field, values>>

TermNames == {S_orderType, S_channel, <<"a">>, S_channel \o toLowerCase(S_VALUES)}

TermValues == {<<>>, <<" ">>, <<"1">>}

TermObjects ==
    UNION { {o \in [1..n -> TermNames \X TermValues] : Distinct(ObjectKeys(o))} : n \in 0..MaxFilters }

InitTerm ==
    /\ InitServer(Loose)
    /\ kin \in [declared : Declarations, requestData : TermObjects]
    /\ kout = <<>>

\* buildTermQueries(requestData, configurableFields) on the request object as given
BuildTerms ==
    /\ kout = <<>>
    /\ LET configurableFields == getConfigurableTermQueryFields(EnvOf(kin.declared)) IN
       kout' = <<[fields |-> configurableFields, request |-> kin.requestData,
                  must |-> buildTermQueries(kin.requestData, configurableFields)]>>
    /\ UNCHANGED <<kin, serverVars, app>>

\* the "must" array of the search payload POST /api/orders builds for a body whose
\* filters are the request object
SearchPayload ==
    /\ kout = <<>>
    /\ LET configurableFields == getConfigurableTermQueryFields(EnvOf(kin.declared))
           requestData == RequestData(Body(S_d1, S_d2, S_DEV, kin.requestData))
       IN kout' = <<[fields |-> configurableFields, request |-> requestData,
                     must |-> buildTermQueries(requestData, configurableFields)]>>
    /\ UNCHANGED <<kin, serverVars, app>>

NextTerm == BuildTerms \/ SearchPayload

SpecTerm == InitTerm /\ [][NextTerm]_vars

\* SpecOverlap: two order requests with the same body that may overlap, against an
\* upstream that answers anything (so that two fetches may bring different records).
OverlapBodies == {Body(S_d1, S_d2, S_DEV, <<>>)}

InitOverlap == InitServer(Loose) /\ kin = <<>> /\ kout = <<>>

NextOverlap == Orders(Reqs, OverlapBodies, {LongLived})

SpecOverlap == InitOverlap /\ [][NextOverlap]_vars

\* SpecKeyPair: the cache keys POST /api/orders computes for two bodies whose dates
\* and filter values may hold the characters the key is put together with.
KeyPairObjects ==
    UNION { {o \in [1..n -> {<<"a">>, <<"b">>} \X {<<"1">>, <<"1", "_", "b", ":", "1">>}] :
                Distinct(ObjectKeys(o))} : n \in 0..MaxFilters }

KeyPairBodies ==
    { Body(s, e, v, o) : s \in {S_d1, <<"1", "_", "1">>}, e \in {S_d2, <<"1", "_", "2">>},
                         v \in {S_DEV, S_PRD}, o \in KeyPairObjects }

InitKeyPair ==
    /\ InitServer(Loose)
    /\ kin \in [a : KeyPairBodies, b : KeyPairBodies]
    /\ kout = <<>>

ComputeKeyPair ==
    /\ kout = <<>>
    /\ kout' = <<CacheKeyOf(kin.a), CacheKeyOf(kin.b)>>
    /\ UNCHANGED <<kin, serverVars, app>>

NextKeyPair == ComputeKeyPair

SpecKeyPair == InitKeyPair /\ [][NextKeyPair]_vars

\* SpecOrderType: what POST /api/orders derives from a body before it looks into the
\* cache and builds the search payload (request data, cache key, term queries), for
\* a body as sent and for the same body with orderType 'Prepaid' stated.
OrderTypeObjects ==
    UNION { {o \in [1..n -> {S_orderType, S_channel} \X {<<>>, S_Prepaid, S_Postpaid}] :
                Distinct(ObjectKeys(o))} : n \in 0..MaxFilters }

\* the handler from the destructuring of the body to buildTermQueries
PreparedRequest(body, env) ==
    LET requestData == RequestData(body)
        configurableFields == getConfigurableTermQueryFields(env)
    IN [requestData |-> requestData,
        cacheKey |-> CacheKeyOf(body),
        must |-> buildTermQueries(requestData, configurableFields)]

InitOrderType ==
    /\ InitServer(Loose)
    /\ kin \in [declared : Declarations, otherFilters : OrderTypeObjects]
    /\ kout = <<>>

PrepareBoth ==
    /\ kout = <<>>
    /\ kout' = <<PreparedRequest(Body(S_d1, S_d2, S_DEV, kin.otherFilters), EnvOf(kin.declared)),
                 PreparedRequest(Body(S_d1, S_d2, S_DEV, Put(kin.otherFilters, S_orderType, S_Prepaid)),
                                 EnvOf(kin.declared))>>
    /\ UNCHANGED <<kin, serverVars, app>>

NextOrderType == PrepareBoth

SpecOrderType == InitOrderType /\ [][NextOrderType]_vars

\* SpecEnv: getEnvironmentConfig and the slot choice of getAccessToken for two
\* environment names, under a process environment that configures DEV, PRD, both,
\* neither, or DEV in part.
S_dev == <<"d", "e", "v">>
S_prd == <<"p", "r", "d">>
S_qa == <<"q", "a">>

EnvNames ==
    {<<>>, S_dev, <<"D", "e", "v">>, S_DEV, S_prd, <<"P", "r", "d">>, S_PRD, S_qa, <<"Q", "A">>}

ConfigOf(prefix, n) ==
    << <<S_API_BASE_URL_ \o prefix, <<"u", n>>>>,
       <<S_CLIENT_ID_ \o prefix, <<"c", n>>>>,
       <<S_AUTH_HEADER_ \o prefix, <<"h", n>>>> >>

ProcessEnvs ==
    { <<>>, ConfigOf(S_DEV, "1"), ConfigOf(S_PRD, "2"), ConfigOf(S_DEV, "1") \o ConfigOf(S_PRD, "2"),
      << <<S_AUTH_HEADER_ \o S_DEV, <<"h", "1">>>> >> \o ConfigOf(S_PRD, "2") }

InitEnv ==
    /\ InitServer(Loose)
    /\ kin \in [a : EnvNames, b : EnvNames, penv : ProcessEnvs]
    /\ kout = <<>>

ResolveEnvironment ==
    /\ kout = <<>>
    /\ kout' = <<[configA |-> getEnvironmentConfig(kin.a, kin.penv),
                  configB |-> getEnvironmentConfig(kin.b, kin.penv),
                  slotA |-> TokenCacheKey(kin.a),
                  slotB |-> TokenCacheKey(kin.b)]>>
    /\ UNCHANGED <<kin, serverVars, app>>

NextEnv == ResolveEnvironment

SpecEnv == InitEnv /\ [][NextEnv]_vars

\* SpecEnvOrders: one order request at a time, for an environment named in any
\* case or not at all, or for one that is neither DEV nor PRD; the process
\* environment is kin.penv; the upstream holds no orders.
EnvBodies == {Body(S_d1, S_d2, e, <<>>) : e \in {<<>>, S_dev, S_PRD, S_qa}}

InitEnvOrders ==
    /\ InitServer(Honest(0))
    /\ kin \in [penv : ProcessEnvs]
    /\ kout = <<>>

NextEnvOrders == Orders({1}, EnvBodies, {LongLived}) \/ Clock

SpecEnvOrders == InitEnvOrders /\ [][NextEnvOrders]_vars

\* SpecConfig: GET /api/config/fields under a process environment in which each
\* declared field has a remote name (possibly empty) and, when it has a values
\* variable, a comma-separated list of items.
MaxItems == 2

ValueItems == {<<"1">>, <<" ", "2">>, <<" ">>, <<>>}

ValueLists == UNION {[1..n -> ValueItems] : n \in 0..MaxItems}

ConfigDecls ==
    [name : {<<"O", "R", "D", "E", "R", "_", "T", "Y", "P", "E">>},
     remote : {<<"t">>}, hasValues : BOOLEAN, items : ValueLists]
    \cup [name : {<<"A">>}, remote : {<<"r">>, <<>>}, hasValues : BOOLEAN, items : ValueLists]

ConfigDeclarations ==
    UNION { {d \in [1..n -> {c \in ConfigDecls : c.hasValues \/ c.items = <<>>}] :
                Distinct([i \in 1..n |-> d[i].name])} : n \in 0..MaxFields }

RECURSIVE ConfigEnvOf(_)
ConfigEnvOf(declared) ==
    IF declared = <<>> THEN << <<<<"P", "O", "R", "T">>, <<"1">>>> >>
    ELSE LET d == declared[Len(declared)]
             rest == ConfigEnvOf(SubSeq(declared, 1, Len(declared) - 1))
             field == <<S_TERM_QUERY_FIELD_ \o d.name, d.remote>>
             values == <<S_TERM_QUERY_FIELD_ \o d.name \o S_VALUES, join(d.items, <<",">>)>>
         IN IF d.hasValues THEN rest \o <<field, values>> ELSE Append(rest, field)

InitConfig ==
    /\ InitServer(Loose)
    /\ kin \in [declared : ConfigDeclarations]
    /\ kout = <<>>

GetConfigFields ==
    /\ kout = <<>>
    /\ kout' = <<ConfigFields(ConfigEnvOf(kin.declared))>>
    /\ UNCHANGED <<kin, serverVars, app>>

NextConfig == GetConfigFields

SpecConfig == InitConfig /\ [][NextConfig]_vars

\* SpecAgg: processOrderData on a sequence of order records and a payment-method
\* filter.
MaxOrders == 3

Order(creation_date, order_total, product_items, guest, payment_instruments) ==
    [creation_date |-> creation_date, order_total |-> order_total,
     product_items |-> product_items, guest |-> guest,
     payment_instruments |-> payment_instruments]

NoInstruments == [present |-> FALSE, list |-> <<>>]

Instruments(list) == [present |-> TRUE, list |-> list]

S_m == <<"m">>
S_n == <<"n">>

\* the order records the upstream may return
Orders6 ==
    { Order(<<"a", "T", "1">>, 1, <<1>>, "true", Instruments(<<S_m>>)),
      Order(<<"a", "T", "2">>, 3, <<1, 2>>, "false", Instruments(<<S_m>>)),
      Order(<<"b", "T", "1">>, 3, <<2>>, "absent", Instruments(<<S_n, S_m>>)),
      Order(<<"b", "T", "1">>, 2, <<>>, "true", Instruments(<<>>)),
      Order(<<"a", "T", "1">>, 0, <<1, 1>>, "false", NoInstruments),
      Order(<<"c", "T", "2">>, 5, <<3>>, "true", Instruments(<<S_n>>)) }

\* ten records of one day, the first four with guest = true
TenOrders ==
    [i \in 1..10 |->
        Order(<<"a", "T", "1">>, i, <<1>>,
              IF i <= 4 THEN "true" ELSE IF i <= 7 THEN "false" ELSE "absent",
              Instruments(<<S_m>>))]

HitLists == UNION {[1..n -> Orders6] : n \in 0..MaxOrders} \cup {TenOrders}

PaymentMethods == {<<>>, <<" ">>, S_m, S_n, <<"z">>}

InitAgg ==
    /\ InitServer(Loose)
    /\ kin \in [hits : HitLists, paymentMethod : PaymentMethods]
    /\ kout = <<>>

Aggregate ==
    /\ kout = <<>>
    /\ kout' = <<processOrderData(kin.hits, kin.paymentMethod)>>
    /\ UNCHANGED <<kin, serverVars, app>>

\* the frontend aggregates the same records and renders its order table
AggregateInApp ==
    /\ Len(kout) = 1
    /\ kout' = Append(kout, [data |-> App_processOrderData(kin.hits, kin.paymentMethod),
                             table |-> getFilteredOrders(kin.hits, kin.paymentMethod)])
    /\ UNCHANGED <<kin, serverVars, app>>

NextAgg == Aggregate \/ AggregateInApp

SpecAgg == InitAgg /\ [][NextAgg]_vars

\* SpecApp: the mounted App component, the user's selections and the answers to
\* its requests, in any order.
AppHitLists ==
    { <<>>,
      << Order(<<"a", "T", "1">>, 1, <<1>>, "true", Instruments(<<S_m>>)),
         Order(<<"c", "T", "2">>, 5, <<3>>, "true", Instruments(<<S_n>>)) >> }

InitApp == InitServer(Loose) /\ kin = <<>> /\ kout = <<>>

NextApp ==
    \/ \E v \in {S_DEV, S_PRD} : setEnvironment(v)
    \/ \E v \in {S_d1, <<"0">>} : setStartDate(v)
    \/ \E v \in {S_d2, <<"3">>} : setEndDate(v)
    \/ \E v \in {S_Prepaid, S_Postpaid} : setOrderType(v)
    \/ \E v \in {<<>>, S_m, S_n} : setPaymentMethod(v)
    \/ \E i \in 1..Len(app.inflight), hits \in AppHitLists : FetchResolves(i, hits)
    \/ \E i \in 1..Len(app.inflight) : FetchRejects(i)

SpecApp == InitApp /\ [][NextApp]_vars

(***************************************************************************)
(* Properties                                                              *)
(***************************************************************************)
\* the hits response of a handler
Ok(hits) == [status |-> 200, hits |-> hits, error |-> FALSE]

\* the request in slot r has been answered from the cache
ServedFromCache(q) == q.pc = "done" /\ q.res.status = 200 /\ q.sent = <<>> /\ q.oauth = 0

\* the request in slot r has been answered with freshly fetched records
ServedFresh(q) == q.pc = "done" /\ q.res.status = 200 /\ q.sent # <<>>

SameEntries(a, b) == {a[i] : i \in 1..Len(a)} = {b[i] : i \in 1..Len(b)}

\* C3: two requests with the same environment, dates and filter name/value pairs
\* get the same cache key, whatever the order of the filter fields.
C3_KeyIgnoresFieldOrder ==
    (kout # <<>> /\ SameEntries(kin.a, kin.b)) => kout[1] = kout[2]

\* C3 witness: the keys of two objects that list the same two fields in
\* opposite orders have been computed
C3_Witness ==
    /\ kout # <<>>
    /\ Len(kin.a) = 2
    /\ kin.a # kin.b
    /\ SameEntries(kin.a, kin.b)

\* C4: the fetch loop stops as soon as the accumulated count reaches the reported
\* total or the most recent page returned zero records: a further search request
\* is outstanding only after a page that brought records.
C4_LoopStopsOnEmptyPage ==
    \A r \in Reqs :
        (req[r].pc = "page" /\ Len(req[r].sent) > 1) => req[r].lastLen > 0

\* the number of search requests a fetch of T records needs, 200 records a page
RequestsFor(T) == IF T = 0 THEN 1 ELSE (T + 199) \div 200

\* C5: against an upstream that holds T records and serves min(200, T - offset) of
\* them per request, a fetch asks at offsets 0, 200, 400, ..., never more than
\* ceil(T/200) times (once when T = 0), and when it completes it has asked exactly
\* that often and returns the T records in order.
C5_HonestUpstreamPageCount ==
    remote.honest =>
        \A r \in Reqs :
            /\ \A i \in 1..Len(req[r].sent) : req[r].sent[i] = (i - 1) * 200
            /\ Len(req[r].sent) <= RequestsFor(remote.total)
            /\ ServedFresh(req[r]) =>
                 /\ Len(req[r].sent) = RequestsFor(remote.total)
                 /\ req[r].res.hits = [i \in 1..remote.total |-> i]

\* C5 witness: 450 records fetched with three requests
C5_Witness ==
    \E r \in Reqs :
        /\ remote = Honest(450)
        /\ ServedFresh(req[r])
        /\ req[r].sent = <<0, 200, 400>>
        /\ Len(req[r].res.hits) = 450

\* C6: when the credential exchange or a page request fails, the handler answers
\* 500 without records, has no further request outstanding and has left the
\* response cache as it was.
C6_FailureAbortsWithoutCaching ==
    [][\A r \in Reqs :
        (TokenRefused(r) \/ PageFails(r))
        => /\ req'[r].pc = "done"
           /\ req'[r].res = [status |-> 500, hits |-> <<>>, error |-> TRUE]
           /\ req'[r].sent = req[r].sent
           /\ req'[r].oauth = req[r].oauth
           /\ orderCache' = orderCache
           /\ stored' = stored]_vars

\* C6 witness: a fetch failed on its second page, after a first page had brought
\* records, and the key has no cache entry
C6_Witness ==
    \E r \in Reqs :
        /\ req[r].pc = "done"
        /\ req[r].res.status = 500
        /\ req[r].caught.kind = "fetch"
        /\ Len(req[r].sent) = 2
        /\ req[r].sent[2] > 0
        /\ req[r].cacheKey \notin DOMAIN orderCache.data

\* C7: a request without startDate or without endDate is answered 400 and changes
\* nothing else: cache entries and hit/miss counters, token state, no upstream call.
C7_MissingDatesRejected ==
    [][\A r \in Reqs, b \in Bodies :
        (Receive(r, b) /\ (b.startDate = <<>> \/ b.endDate = <<>>))
        => /\ req'[r].pc = "done"
           /\ req'[r].res = [status |-> 400, hits |-> <<>>, error |-> TRUE]
           /\ req'[r].oauth = 0
           /\ req'[r].sent = <<>>
           /\ orderCache' = orderCache
           /\ tokenCache' = tokenCache]_vars

\* C7 witness: a request without endDate (but with startDate) was answered 400
C7_Witness ==
    \E r \in Reqs :
        /\ req[r].pc = "done"
        /\ req[r].res.status = 400
        /\ req[r].body.startDate # <<>>
        /\ req[r].body.endDate = <<>>

\* the token slot an order request with body b uses
SlotOf(b) == toUpperCase(IF b.environment = <<>> THEN S_DEV ELSE b.environment)

\* the handler reaches getAccessToken: dates present and no cached result
CallsGetAccessToken(r, b) ==
    /\ Receive(r, b)
    /\ ~(b.startDate = <<>> \/ b.endDate = <<>>)
    /\ req'[r].res.status # 200

\* C8: getAccessToken called while the environment's slot holds a token and the
\* clock is strictly before its stored expiry returns that token, sends no
\* credential exchange and leaves the token state unchanged.
C8_ValidTokenServedFromCache ==
    [][\A r \in Reqs, b \in TokenBodies :
        (/\ CallsGetAccessToken(r, b)
         /\ tokenCache[SlotOf(b)].accessToken # <<>>
         /\ tokenCache[SlotOf(b)].tokenExpiresAt # <<>>
         /\ now < tokenCache[SlotOf(b)].tokenExpiresAt[1])
        => /\ req'[r].token = tokenCache[SlotOf(b)].accessToken
           /\ req'[r].oauth = 0
           /\ req'[r].pc = "page"
           /\ tokenCache' = tokenCache]_vars

\* C8 witness: a request is fetching pages with a token it got without an exchange
C8_Witness ==
    \E r \in Reqs :
        /\ req[r].pc = "page"
        /\ req[r].oauth = 0
        /\ req[r].token # <<>>
        /\ req[r].token = tokenCache[SlotOf(req[r].body)].accessToken

\* the instant a refresh's token stops being served: t + (L - 60) s
ExpiryOf(refresh) == refresh.at + (refresh.response.expires_in - 60) * 1000

\* C9: after a successful refresh at time t with lifetime L the slot holds the
\* token with expiry t + (L - 60) s; getAccessToken serves that token from the
\* cache strictly before that instant and makes a new exchange at or after it
\* (so never serves from the cache when L <= 60).
C9_ExpiryIsLifetimeMinus60 ==
    [][/\ \A e \in DOMAIN refreshed' :
            refreshed'[e] # <<>> =>
                tokenCache'[e] = [accessToken |-> refreshed'[e][1].response.access_token,
                                  tokenExpiresAt |-> <<ExpiryOf(refreshed'[e][1])>>]
       /\ \A r \in Reqs, b \in TokenBodies :
            (CallsGetAccessToken(r, b) /\ refreshed[SlotOf(b)] # <<>>)
            => IF now < ExpiryOf(refreshed[SlotOf(b)][1])
               THEN /\ req'[r].oauth = 0
                    /\ req'[r].token = refreshed[SlotOf(b)][1].response.access_token
               ELSE /\ req'[r].oauth = 1
                    /\ req'[r].pc = "token"
                    /\ req'[r].sent = <<>>]_vars

\* C9 witness: a request makes a new exchange exactly at the expiry instant of a
\* token whose lifetime was above 60 s
C9_Witness ==
    \E r \in Reqs :
        /\ req[r].pc = "token"
        /\ refreshed[SlotOf(req[r].body)] # <<>>
        /\ refreshed[SlotOf(req[r].body)][1].response.expires_in > 60
        /\ now = ExpiryOf(refreshed[SlotOf(req[r].body)][1])

\* C10: when the credential exchange fails, getAccessToken throws an error naming
\* the environment, the call has made exactly one exchange and makes no other, and
\* the slot's token and expiry stay as they were.
C10_FailedExchangeLeavesTokenState ==
    [][\A r \in Reqs :
        TokenRefused(r)
        => /\ req'[r].caught = [kind |-> "token", env |-> SlotOf(req[r].body)]
           /\ req[r].oauth = 1
           /\ req'[r].oauth = 1
           /\ req'[r].pc = "done"
           /\ req'[r].sent = <<>>
           /\ tokenCache' = tokenCache]_vars

\* C10 witness: an exchange failed for PRD while the slot still holds the token of
\* an earlier exchange
C10_Witness ==
    \E r \in Reqs :
        /\ req[r].pc = "done"
        /\ req[r].caught = [kind |-> "token", env |-> S_PRD]
        /\ tokenCache[S_PRD].accessToken # <<>>

\* the state of a token slot at time t: EMPTY without a token, VALID while the
\* clock is before the stored expiry, EXPIRED from the expiry on
SlotState(envCache, t) ==
    IF envCache.accessToken = <<>> \/ envCache.tokenExpiresAt = <<>> THEN "EMPTY"
    ELSE IF t < envCache.tokenExpiresAt[1] THEN "VALID"
    ELSE "EXPIRED"

\* this step is a successful refresh of slot e with an answer of the given lifetimes
RefreshOf(e, lifetimes) ==
    \E r \in Reqs, o \in OAuthResponses :
        /\ o.expires_in \in lifetimes
        /\ TokenGranted(r, o)
        /\ SlotOf(req[r].body) = e
        /\ tokenCache'[e].accessToken = o.access_token

\* this step is the clock reaching or passing the expiry stored in slot e
ClockPasses(e) ==
    /\ tokenCache'[e] = tokenCache[e]
    /\ now < tokenCache[e].tokenExpiresAt[1]
    /\ now' >= tokenCache[e].tokenExpiresAt[1]

\* the slot transitions of one step, a VALID slot becoming EXPIRED only in the ways
\* listed in byRefresh (lifetimes of a refresh that may do it) or by the clock
SlotStep(e, byRefresh) ==
    LET s == SlotState(tokenCache[e], now)
        t == SlotState(tokenCache'[e], now')
    IN /\ tokenCache'[e] # tokenCache[e] => RefreshOf(e, Lifetimes)
       /\ (s = "EMPTY" /\ t # "EMPTY") => RefreshOf(e, Lifetimes)
       /\ (s = "VALID" /\ t = "EXPIRED") => (ClockPasses(e) \/ RefreshOf(e, byRefresh))
       /\ (s = "EXPIRED" /\ t = "VALID") => RefreshOf(e, Lifetimes)
       /\ s # "EMPTY" => t # "EMPTY"

\* C11 as stated: each token slot leaves EMPTY only by a successful refresh, goes
\* VALID to EXPIRED only by the clock passing the stored expiry, goes EXPIRED to
\* VALID only by a successful refresh that overwrites the token, never returns to
\* EMPTY, and is written by nothing but a successful refresh.
C11_SlotStateMachine ==
    [][\A e \in {S_DEV, S_PRD} : SlotStep(e, {})]_vars

\* C11 amended: the same, except that a VALID slot also becomes EXPIRED when an
\* overlapping successful refresh with a declared lifetime of at most 60 seconds
\* overwrites it (its expiry, lifetime - 60 s from now, is not in the future).
C11_SlotStateMachineAmended ==
    [][\A e \in {S_DEV, S_PRD} : SlotStep(e, {l \in Lifetimes : l <= 60})]_vars

\* C11 witness: the DEV slot was refreshed with an expiry in the future and the
\* clock has since passed it (EMPTY to VALID to EXPIRED), the PRD slot is VALID
C11_Witness ==
    /\ refreshed[S_DEV] # <<>>
    /\ refreshed[S_DEV][1].at < ExpiryOf(refreshed[S_DEV][1])
    /\ SlotState(tokenCache[S_DEV], now) = "EXPIRED"
    /\ SlotState(tokenCache[S_PRD], now) = "VALID"

\* C12: a call that finds the token not VALID makes its own credential exchange
\* even while another call's exchange for the same environment is outstanding; a
\* call whose exchange succeeds returns the token of its own response; and the
\* slot always holds the token and expiry of the exchange that completed last.
C12_NoSingleFlightLastWriterWins ==
    [][/\ \A r \in Reqs, b \in TokenBodies :
            (/\ CallsGetAccessToken(r, b)
             /\ SlotState(tokenCache[SlotOf(b)], now) # "VALID")
            => /\ req'[r].pc = "token"
               /\ req'[r].oauth = 1
               /\ \A x \in Reqs \ {r} : req'[x] = req[x]
       /\ \A r \in Reqs, o \in OAuthResponses :
            TokenGranted(r, o)
            => /\ req'[r].token = o.access_token
               /\ tokenCache'[SlotOf(req[r].body)] =
                      [accessToken |-> o.access_token,
                       tokenExpiresAt |-> <<now + (o.expires_in - 60) * 1000>>]
       /\ \A e \in {S_DEV, S_PRD} :
            (~\E r \in Reqs, o \in OAuthResponses : TokenGranted(r, o) /\ SlotOf(req[r].body) = e)
            => tokenCache'[e] = tokenCache[e]]_vars

\* C12 witness: two calls for the same environment overlap, each with an exchange
\* of its own: one has completed and holds the token it was given, which the slot
\* holds too and still serves (so the other call began before it was stored), the
\* other call's exchange is still outstanding
C12_Witness ==
    /\ req[1].pc = "token" /\ req[2].pc = "page"
    /\ req[1].env = req[2].env
    /\ req[1].oauth = 1 /\ req[2].oauth = 1
    /\ SlotState(tokenCache[SlotOf(req[2].body)], now) = "VALID"
    /\ tokenCache[SlotOf(req[2].body)].accessToken = req[2].token
    /\ refreshed[SlotOf(req[2].body)][1].at = now

\* a value with a character other than white space
NonBlank(v) == \E i \in 1..Len(v) : v[i] # " "

\* the value the request gives for the configured field with key k
Supplied(request, k) ==
    Get(request,
        CASE k = S_order_type -> S_orderType [] k = S_customer_type -> S_customerType
          [] k = S_store_id -> S_storeId [] OTHER -> k)

\* the number of the first i configured fields the request gives a non-blank value for
SuppliedUpTo(request, fields, i) ==
    Cardinality({j \in 1..i : NonBlank(Supplied(request, fields[j][1]))})

\* C13: the list starts with the predicate status not_in {created, failed}; each
\* configured field with a non-blank request value has its 'is' predicate [remote
\* name, value] at the position of its rank among such fields; nothing else is in
\* the list (absent, empty and white-space values contribute nothing).
C13_TermQueriesFollowConfiguration ==
    kout # <<>> =>
        LET fields == kout[1].fields
            request == kout[1].request
            must == kout[1].must
        IN /\ must[1] = [fields |-> <<S_status>>, operator |-> "not_in",
                         values |-> <<S_created, S_failed>>]
           /\ Len(must) = 1 + SuppliedUpTo(request, fields, Len(fields))
           /\ \A i \in 1..Len(fields) :
                NonBlank(Supplied(request, fields[i][1]))
                => must[1 + SuppliedUpTo(request, fields, i)] =
                       [fields |-> <<fields[i][2]>>, operator |-> "is",
                        values |-> <<Supplied(request, fields[i][1])>>]

\* C13 witness: two fields are configured, the request gives a white-space value for
\* the first and a value for the second, and one 'is' predicate was emitted
C13_Witness ==
    /\ kout # <<>>
    /\ Len(kout[1].fields) = 2
    /\ Supplied(kout[1].request, kout[1].fields[1][1]) = <<" ">>
    /\ NonBlank(Supplied(kout[1].request, kout[1].fields[2][1]))
    /\ Len(kout[1].must) = 2

\* the remote names of the declared filter fields
DeclaredRemoteNames == {kin.declared[i].remote : i \in 1..Len(kin.declared)}

\* C14: every 'is' predicate sent upstream targets the remote name of a declared
\* filter field; request fields outside the declared set contribute no predicate.
C14_OnlyConfiguredFields ==
    kout # <<>> =>
        \A k \in 2..Len(kout[1].must) : kout[1].must[k].fields[1] \in DeclaredRemoteNames

\* a filter that is absent, empty or white space only
Blank(v) == \A i \in 1..Len(v) : v[i] = " "

\* the record passes the payment-method filter
Survives(order, paymentMethod) ==
    \/ Blank(paymentMethod)
    \/ /\ order.payment_instruments.present
       /\ order.payment_instruments.list # <<>>
       /\ Head(order.payment_instruments.list) = paymentMethod

\* the positions of the filtered records
Kept == {i \in 1..Len(kin.hits) : Survives(kin.hits[i], kin.paymentMethod)}

\* the sum of v[i] over the positions i in S
RECURSIVE SumOver(_, _)
SumOver(S, v) ==
    IF S = {} THEN 0
    ELSE LET i == CHOOSE i \in S : TRUE IN v[i] + SumOver(S \ {i}, v)

\* the part of a timestamp before its first 'T'
DateOf(stamp) ==
    LET k == CHOOSE k \in 1..(Len(stamp) + 1) :
                 /\ k = Len(stamp) + 1 \/ stamp[k] = "T"
                 /\ \A j \in 1..(k - 1) : stamp[j] # "T"
    IN SubSeq(stamp, 1, k - 1)

\* the order totals and the unit counts of the records, by position
TotalsOf == [i \in 1..Len(kin.hits) |-> kin.hits[i].order_total]

UnitsOf ==
    [i \in 1..Len(kin.hits) |->
        SumOver(1..Len(kin.hits[i].product_items), kin.hits[i].product_items)]

\* C15: new = unregistered = the number of filtered records with guest true,
\* returning = registered = the number with guest false or absent, so that
\* new + returning = registered + unregistered = totalOrders; ten records with four
\* guests give {new: 4, unregistered: 4, returning: 6, registered: 6}.
C15_CustomerBreakdownCounts ==
    kout # <<>> =>
        LET cb == kout[1].customerBreakdown
            guests == Cardinality({i \in Kept : kin.hits[i].guest = "true"})
            others == Cardinality({i \in Kept : kin.hits[i].guest \in {"false", "absent"}})
        IN /\ cb.new = guests /\ cb.unregistered = guests
           /\ cb.returning = others /\ cb.registered = others
           /\ cb.new + cb.returning = kout[1].kpis.totalOrders
           /\ cb.registered + cb.unregistered = kout[1].kpis.totalOrders
           /\ (kin.hits = TenOrders /\ Blank(kin.paymentMethod))
                => cb = [new |-> 4, unregistered |-> 4, returning |-> 6, registered |-> 6]

\* C15 witness: the ten-record sample has been aggregated without a filter
C15_Witness ==
    /\ kout # <<>>
    /\ kin.hits = TenOrders
    /\ kin.paymentMethod = <<>>
    /\ kout[1].customerBreakdown.new = 4
    /\ kout[1].customerBreakdown.returning = 6

\* C16: when no record passes the filter, every KPI is 0 (the averages included),
\* dailyMetrics is empty and the customer breakdown is all zero.
C16_EmptyAggregateIsZero ==
    (kout # <<>> /\ Kept = {}) =>
        /\ kout[1].kpis = [totalOrders |-> 0, totalRevenue |-> 0, totalUnits |-> 0,
                           avgOrderValue |-> <<0, 1>>, avgUnitsPerTransaction |-> <<0, 1>>]
        /\ kout[1].dailyMetrics = <<>>
        /\ kout[1].customerBreakdown =
               [new |-> 0, returning |-> 0, registered |-> 0, unregistered |-> 0]

\* C16 witness: records were given and the payment-method filter matched none
C16_Witness ==
    /\ kout # <<>>
    /\ Len(kin.hits) >= 2
    /\ ~Blank(kin.paymentMethod)
    /\ Kept = {}
    /\ kout[1].kpis.totalOrders = 0

\* C17: dailyMetrics has an entry for date d exactly when a filtered record's
\* creation timestamp has d before its 'T'; the entry counts those records and
\* sums their order totals and their line-item quantities.
C17_DailyMetricsByDate ==
    kout # <<>> =>
        LET dm == kout[1].dailyMetrics
            On(d) == {i \in Kept : DateOf(kin.hits[i].creation_date) = d}
        IN /\ \A i, j \in 1..Len(dm) : dm[i][1] = dm[j][1] => i = j
           /\ \A i \in Kept : \E k \in 1..Len(dm) : dm[k][1] = DateOf(kin.hits[i].creation_date)
           /\ \A k \in 1..Len(dm) :
                /\ On(dm[k][1]) # {}
                /\ dm[k][2] = [orders |-> Cardinality(On(dm[k][1])),
                               revenue |-> SumOver(On(dm[k][1]), TotalsOf),
                               units |-> SumOver(On(dm[k][1]), UnitsOf)]

\* C17 witness: two records of one day with different times of day were counted
\* under that day, next to a record of another day
C17_Witness ==
    /\ kout # <<>>
    /\ Len(kout[1].dailyMetrics) = 2
    /\ \E k \in 1..2 : kout[1].dailyMetrics[k][2].orders = 2
    /\ \E i, j \in Kept :
          /\ kin.hits[i].creation_date # kin.hits[j].creation_date
          /\ DateOf(kin.hits[i].creation_date) = DateOf(kin.hits[j].creation_date)

\* C18: totalOrders is the number of filtered records and the sum of the days'
\* orders, totalRevenue the sum of the days' revenue, totalUnits the sum of the
\* days' units.
C18_TotalsAgreeWithDays ==
    kout # <<>> =>
        LET dm == kout[1].dailyMetrics
            days == 1..Len(dm)
        IN /\ kout[1].kpis.totalOrders = Cardinality(Kept)
           /\ kout[1].kpis.totalOrders = SumOver(days, [k \in days |-> dm[k][2].orders])
           /\ kout[1].kpis.totalRevenue = SumOver(days, [k \in days |-> dm[k][2].revenue])
           /\ kout[1].kpis.totalUnits = SumOver(days, [k \in days |-> dm[k][2].units])

\* C18 witness: a filter kept two records of different days and dropped another
C18_Witness ==
    /\ kout # <<>>
    /\ ~Blank(kin.paymentMethod)
    /\ Len(kout[1].dailyMetrics) = 2
    /\ kout[1].kpis.totalOrders = 2
    /\ Len(kin.hits) = 3
    /\ kout[1].kpis.totalRevenue > 0

\* the records at the positions in S, in order
RECURSIVE Pick(_, _)
Pick(hits, S) ==
    IF hits = <<>> THEN <<>>
    ELSE LET rest == Pick(SubSeq(hits, 1, Len(hits) - 1), S)
         IN IF Len(hits) \in S THEN Append(rest, hits[Len(hits)]) ELSE rest

\* C20: with a non-blank filter the result is the aggregate of exactly the records
\* whose first payment instrument has the filter as its method id; with an absent,
\* empty or white-space filter it is the aggregate of every record.
C20_FilterOnFirstInstrument ==
    kout # <<>> =>
        /\ kout[1] = processOrderData(Pick(kin.hits, Kept), <<>>)
        /\ kout[1].kpis.totalOrders = Cardinality(Kept)
        /\ Blank(kin.paymentMethod) => kout[1].kpis.totalOrders = Len(kin.hits)

\* C20 witness: of three records, one has the method first, one has it second and
\* one has no instruments; only the first was aggregated
C20_Witness ==
    /\ kout # <<>>
    /\ kin.paymentMethod = S_m
    /\ Len(kin.hits) = 3
    /\ \E i \in 1..3 : kin.hits[i].payment_instruments = Instruments(<<S_n, S_m>>)
    /\ \E i \in 1..3 : ~kin.hits[i].payment_instruments.present
    /\ kout[1].kpis.totalOrders = 1

\* C21: on the same records and filter the frontend's aggregator returns what the
\* server's returns (dailyMetrics, customerBreakdown, kpis), and the rows of the
\* order table are exactly the records counted in kpis.totalOrders.
C21_ClientEqualsServerAggregate ==
    Len(kout) = 2 =>
        /\ kout[2].data.dailyMetrics = kout[1].dailyMetrics
        /\ kout[2].data.customerBreakdown = kout[1].customerBreakdown
        /\ kout[2].data.kpis = kout[1].kpis
        /\ Len(kout[2].table) = kout[2].data.kpis.totalOrders
        /\ kout[2].table = Pick(kin.hits, Kept)

\* C21 witness: both aggregators ran on three records of two days under a filter
\* that keeps two of them, and the table has those two rows
C21_Witness ==
    /\ Len(kout) = 2
    /\ Len(kin.hits) = 3
    /\ ~Blank(kin.paymentMethod)
    /\ Len(kout[2].table) = 2
    /\ Len(kout[1].dailyMetrics) = 2
    /\ kout[1].kpis.totalRevenue > 0

\* C22: DELETE /api/cache/clear/:key with a key that is present removes that entry
\* and no other and answers deleted = true; with a key that is absent it answers
\* 404, deleted = false, and the cached keys and values stay as they were.
C22_ClearOneRemovesExactlyThatKey ==
    [][\A key \in ClearableKeys :
        ClearOne(key) =>
            IF key \in DOMAIN orderCache.data
            THEN /\ admin' = [op |-> "clearOne", status |-> 200, n |-> 1]
                 /\ DOMAIN orderCache'.data = DOMAIN orderCache.data \ {key}
                 /\ \A k \in DOMAIN orderCache'.data : orderCache'.data[k] = orderCache.data[k]
            ELSE /\ admin' = [op |-> "clearOne", status |-> 404, n |-> 0]
                 /\ orderCache'.data = orderCache.data]_vars

\* C22 witness: two results were cached, one of them was cleared by key and the
\* other is still in the cache
C22_Witness ==
    /\ admin = [op |-> "clearOne", status |-> 200, n |-> 1]
    /\ events = 3
    /\ Cardinality(DOMAIN orderCache.data) = 1
    /\ Cardinality(DOMAIN stored) = 1

\* C23: DELETE /api/cache/clear leaves the response cache without entries, reports
\* the number of entries it held just before, and leaves the token cache alone.
C23_ClearAllReportsCount ==
    [][ClearAll =>
          /\ DOMAIN orderCache'.data = {}
          /\ admin' = [op |-> "clear", status |-> 200, n |-> Cardinality(DOMAIN orderCache.data)]
          /\ tokenCache' = tokenCache]_vars

\* C23 witness: a clear removed two entries while a token was cached
C23_Witness ==
    /\ admin = [op |-> "clear", status |-> 200, n |-> 2]
    /\ DOMAIN orderCache.data = {}
    /\ \E e \in DOMAIN tokenCache : tokenCache[e].accessToken # <<>>

\* C24: the hit and miss counts of GET /api/cache/stats never decrease; a lookup
\* that finds a live entry adds one hit, a lookup that finds none adds one miss,
\* nothing else changes them; the key count is the number of entries stored.
C24_StatsCumulative ==
    [][/\ CacheStats(orderCache').hits >= CacheStats(orderCache).hits
       /\ CacheStats(orderCache').misses >= CacheStats(orderCache).misses
       /\ CacheStats(orderCache').totalKeys = Cardinality(DOMAIN orderCache'.data)
       /\ \A r \in Reqs, b \in Bodies :
            (Receive(r, b) /\ ~(b.startDate = <<>> \/ b.endDate = <<>>))
            => IF ServedFromCache(req'[r])
               THEN /\ CacheStats(orderCache').hits = CacheStats(orderCache).hits + 1
                    /\ CacheStats(orderCache').misses = CacheStats(orderCache).misses
               ELSE /\ CacheStats(orderCache').misses = CacheStats(orderCache).misses + 1
                    /\ CacheStats(orderCache').hits = CacheStats(orderCache).hits]_vars

Core(item) == SelectSeq(item, LAMBDA c : c # " ")

\* the items of a values list that are not blank, without their white space
NonBlankItems(items) ==
    SelectSeq([i \in 1..Len(items) |-> Core(items[i])], LAMBDA x : x # <<>>)

\* the key under which a declared field is advertised
AdvertisedKey(name) == IF name = <<"A">> THEN <<"a">> ELSE S_order_type

\* C26: a configured field (declared with a remote name) is advertised exactly when
\* its values variable exists and holds a non-blank item; an advertised field
\* carries its remote name and its non-blank items, trimmed, in declaration order;
\* nothing else is advertised.
C26_AdvertisedFields ==
    kout # <<>> =>
        LET adv == kout[1].fields
            decl == kin.declared
        IN /\ \A k \in 1..Len(adv) : \E i \in 1..Len(decl) : adv[k][1] = AdvertisedKey(decl[i].name)
           /\ \A i \in 1..Len(decl) :
                LET key == AdvertisedKey(decl[i].name)
                    shown == \E k \in 1..Len(adv) : adv[k][1] = key
                IN /\ shown <=> (/\ decl[i].remote # <<>>
                                 /\ decl[i].hasValues
                                 /\ NonBlankItems(decl[i].items) # <<>>)
                   /\ shown =>
                        LET f == adv[CHOOSE k \in 1..Len(adv) : adv[k][1] = key][2]
                        IN /\ f.apiField = decl[i].remote
                           /\ f.options = NonBlankItems(decl[i].items)

\* C26 witness: of two declared fields one is advertised with one trimmed value out
\* of a list with a blank item, the other has only blank items and is omitted
C26_Witness ==
    /\ kout # <<>>
    /\ Len(kin.declared) = 2
    /\ Len(kout[1].fields) = 1
    /\ kout[1].fields[1][2].options = <<<<"2">>>>
    /\ \E i \in 1..2 : kin.declared[i].items = <<<<" ", "2">>, <<" ">>>>
    /\ \E i \in 1..2 : kin.declared[i].hasValues /\ kin.declared[i].remote # <<>>
                       /\ kin.declared[i].items = <<<<" ">>, <<>>>>

\* C30: within one fetch the first search request has offset 0; while a request is
\* outstanding its offset is the number of records accumulated so far; offsets never
\* decrease and grow by the size of the page just received when that page was not
\* empty; against an upstream that serves its records page by page, consecutive
\* offsets are 200 apart.
C30_SequentialPages ==
    \A r \in Reqs :
        LET q == req[r]
            n == Len(q.sent)
        IN /\ n > 0 => q.sent[1] = 0
           /\ q.pc = "page" => n > 0 /\ q.sent[n] = Len(q.allHits) /\ q.start = Len(q.allHits)
           /\ \A i \in 1..(n - 1) : q.sent[i] <= q.sent[i + 1]
           /\ (q.pc = "page" /\ n >= 2 /\ q.lastLen > 0) =>
                  /\ q.sent[n - 1] < q.sent[n]
                  /\ q.sent[n] = q.sent[n - 1] + q.lastLen
           /\ remote.honest => \A i \in 1..(n - 1) : q.sent[i + 1] = q.sent[i] + PageSize

\* C30 witness: the third search request of a fetch is outstanding, after two full pages
C30_Witness ==
    /\ remote.honest
    /\ req[1].pc = "page"
    /\ req[1].sent = <<0, 200, 400>>
    /\ Len(req[1].allHits) = 400

\* the position of a letter in the alphabet, whatever its case
LetterOf(c) ==
    IF \E i \in 1..26 : UpperLetters[i] = c \/ LowerLetters[i] = c
    THEN CHOOSE i \in 1..26 : UpperLetters[i] = c \/ LowerLetters[i] = c
    ELSE 0

SameIgnoringCase(a, b) ==
    Len(a) = Len(b) /\ \A i \in 1..Len(a) : LetterOf(a[i]) = LetterOf(b[i])

\* the three variables of an environment, read under the given prefix
ConfigUnder(prefix, penv) ==
    [apiBaseUrl |-> Get(penv, S_API_BASE_URL_ \o prefix),
     clientId |-> Get(penv, S_CLIENT_ID_ \o prefix),
     authHeader |-> Get(penv, S_AUTH_HEADER_ \o prefix)]

\* C28: an absent or empty environment name resolves to the configuration and the
\* token slot of DEV, and two names that differ only in letter case resolve to the
\* same configuration and the same token slot.
C28_EnvironmentCaseInsensitive ==
    kout # <<>> =>
        /\ kin.a = <<>> =>
              /\ kout[1].configA = ConfigUnder(S_DEV, kin.penv)
              /\ kout[1].slotA = S_DEV
        /\ SameIgnoringCase(kin.a, kin.b) =>
              /\ kout[1].configA = kout[1].configB
              /\ kout[1].slotA = kout[1].slotB

\* C28 witness: "dev" and "DEV" are resolved where DEV is configured
C28_Witness ==
    /\ kout # <<>>
    /\ kin.a = S_dev
    /\ kin.b = S_DEV
    /\ kout[1].configA.apiBaseUrl = <<"u", "1">>
    /\ kout[1].slotA = S_DEV

\* an environment whose base URL or client id is not set
Unconfigured(config) == config.apiBaseUrl = <<>> \/ config.clientId = <<>>

\* C29: a request for an environment without configuration that gets as far as
\* getAccessToken ends with the token-acquisition error naming the environment,
\* after no credential exchange and no search request, and no token is stored;
\* also when the environment is neither DEV nor PRD.
C29_UnconfiguredEnvironmentFailsFast ==
    \A r \in Reqs :
        LET q == req[r]
            key == TokenCacheKey(q.env)
        IN (/\ q.cacheKey # <<>>
            /\ ~ServedFromCache(q)
            /\ Unconfigured(getEnvironmentConfig(q.env, kin.penv))) =>
               /\ q.pc = "done"
               /\ q.caught = TokenError(key)
               /\ q.oauth = 0
               /\ q.sent = <<>>
               /\ key \in DOMAIN tokenCache => tokenCache[key].accessToken = Null

\* C27: a change of the payment method sends no POST and leaves rawData as it was;
\* when rawData is there, the data displayed afterwards is processOrderData(rawData,
\* new payment method), else it stays as it was.  A POST is added to those in
\* flight only by a step that changes startDate, endDate, orderType or environment.
C27_PaymentMethodOnlyReaggregates ==
    [][ /\ app'.paymentMethod # app.paymentMethod =>
              /\ app'.inflight = app.inflight
              /\ app'.rawData = app.rawData
              /\ app.rawData = NoRawData => app'.data = app.data
              /\ app.rawData # NoRawData =>
                    /\ app'.data # NoData
                    /\ LET shown == app'.data[1]
                           expected == processOrderData(app.rawData[1], app'.paymentMethod)
                       IN /\ shown.dailyMetrics = expected.dailyMetrics
                          /\ shown.customerBreakdown = expected.customerBreakdown
                          /\ shown.kpis = expected.kpis
        /\ Len(app'.inflight) > Len(app.inflight) =>
              \/ app'.startDate # app.startDate
              \/ app'.endDate # app.endDate
              \/ app'.orderType # app.orderType
              \/ app'.environment # app.environment
      ]_vars

\* C27 witness: with two records fetched and nothing in flight the payment method
\* was changed last, and the data displayed counts the one record that matches
C27_Witness ==
    /\ app.last = "payment"
    /\ app.paymentMethod = S_m
    /\ app.rawData # NoRawData
    /\ Len(app.rawData[1]) = 2
    /\ app.inflight = <<>>
    /\ app.data # NoData
    /\ app.data[1].kpis.totalOrders = 1

\* C31: the end of a credential exchange, granted or refused, leaves the slot of the
\* other environment as it was; a request that starts fetching pages does so with
\* the token its own environment's slot holds at that instant, and keeps that token
\* for all its pages.
C31_SlotsIsolatedPerEnvironment ==
    [][\A r \in Reqs :
        /\ (TokenRefused(r) \/ \E o \in OAuthResponses : TokenGranted(r, o)) =>
              \A e \in {S_DEV, S_PRD} \ {SlotOf(req[r].body)} : tokenCache'[e] = tokenCache[e]
        /\ (req[r].pc # "page" /\ req'[r].pc = "page") =>
              /\ req'[r].token # <<>>
              /\ req'[r].token = tokenCache'[SlotOf(req'[r].body)].accessToken
        /\ (req[r].pc = "page" /\ req'[r].pc = "page") => req'[r].token = req[r].token
      ]_vars

\* C31 witness: the two slots hold different tokens, and a PRD request is fetching
\* pages with the PRD token while a DEV request's exchange is outstanding
C31_Witness ==
    /\ tokenCache[S_DEV].accessToken = <<"a">>
    /\ tokenCache[S_PRD].accessToken = <<"z">>
    /\ \E r \in Reqs :
          /\ req[r].pc = "page"
          /\ SlotOf(req[r].body) = S_PRD
          /\ req[r].token = <<"z">>
    /\ \E r \in Reqs : req[r].pc = "token" /\ SlotOf(req[r].body) = S_DEV

\* C32: a body whose orderType is missing or empty gets the cache key and the term
\* queries of the same body with orderType 'Prepaid'.
C32_OrderTypeDefaultsToPrepaid ==
    (kout # <<>> /\ Get(kin.otherFilters, S_orderType) = <<>>) =>
        /\ kout[1].cacheKey = kout[2].cacheKey
        /\ kout[1].must = kout[2].must

\* two bodies with the same environment, dates and filter name/value pairs
SameParameters(a, b) ==
    /\ a.environment = b.environment
    /\ a.startDate = b.startDate
    /\ a.endDate = b.endDate
    /\ SameEntries(a.otherFilters, b.otherFilters)

\* C33: two bodies that differ in environment, startDate, endDate or in a filter
\* field's name or value never get the same cache key.
C33_CacheKeyInjective ==
    (kout # <<>> /\ kout[1] = kout[2]) => SameParameters(kin.a, kin.b)

\* the handler is between its first await and its response
InFlight(q) == q.pc \in {"token", "page"}

\* C34 as stated: while two requests with the same key are both in progress, at most
\* one of them has sent search requests upstream.
C34_SingleFetchForIdenticalRequests ==
    \A r1, r2 \in Reqs :
        (r1 # r2 /\ InFlight(req[r1]) /\ InFlight(req[r2]) /\ req[r1].cacheKey = req[r2].cacheKey)
        => ~(req[r1].sent # <<>> /\ req[r2].sent # <<>>)

\* C34 amended: a request that misses the cache starts a fetch cycle of its own also
\* while another request with the same key is in progress; and a request that ends
\* its fetch leaves one cache entry for the key, holding the complete result it
\* returns itself (so after both the entry is that of the fetch that ended last).
C34_EachFetchesLastWriterWins ==
    [][\A r \in Reqs :
        /\ \A b \in OverlapBodies :
              (/\ Receive(r, b)
               /\ CacheKeyOf(b) \notin DOMAIN orderCache.data
               /\ \E r2 \in Reqs \ {r} : InFlight(req[r2]) /\ req[r2].cacheKey = CacheKeyOf(b))
              => /\ InFlight(req'[r])
                 /\ \A r2 \in Reqs \ {r} : req'[r2] = req[r2]
        /\ (req[r].pc = "page" /\ ServedFresh(req'[r])) =>
              /\ NodeCacheKeys(orderCache') = {req'[r].cacheKey}
              /\ orderCache'.data[req'[r].cacheKey].v.hits = req'[r].res.hits
      ]_vars

\* C34 witness: two requests with the same key have each fetched and returned
\* their own records, which differ; the cache holds those of the second
C34_Witness ==
    /\ ServedFresh(req[1]) /\ ServedFresh(req[2])
    /\ req[1].cacheKey = req[2].cacheKey
    /\ req[1].res.hits # req[2].res.hits
    /\ req[2].cacheKey \in DOMAIN orderCache.data
    /\ orderCache.data[req[2].cacheKey].v.hits = req[2].res.hits

\* C35: a request is never answered from the cache with records stored by a fetch
\* during which a clear of its key (DELETE /api/cache/clear or clear/:key)
\* completed.
C35_ClearEffectiveAgainstInFlight ==
    [][\A r \in Reqs, b \in Bodies :
        (Receive(r, b) /\ ServedFromCache(req'[r]))
        => (CacheKeyOf(b) \in DOMAIN stored => ~stored[CacheKeyOf(b)].stale)]_vars

\* C36: in every state each slot has either neither token nor expiry, or the token
\* and the expiry (time of the exchange + lifetime - 60 s) of one and the same
\* exchange response, the last one granted for that environment.
C36_SlotConsistent ==
    \A e \in {S_DEV, S_PRD} :
        IF refreshed[e] = <<>>
        THEN tokenCache[e].accessToken = <<>> /\ tokenCache[e].tokenExpiresAt = <<>>
        ELSE /\ tokenCache[e].accessToken = refreshed[e][1].response.access_token
             /\ tokenCache[e].tokenExpiresAt =
                    <<refreshed[e][1].at + (refreshed[e][1].response.expires_in - 60) * 1000>>

\* C36 witness: a second exchange for DEV was granted, later and with another token
\* and lifetime than the first, while the request of the first is still fetching
\* with its own token; the slot holds the pair of the second
C36_Witness ==
    /\ refreshed[S_DEV] # <<>>
    /\ refreshed[S_DEV][1].at > 0
    /\ refreshed[S_DEV][1].response = [access_token |-> <<"z">>, expires_in |-> 61]
    /\ tokenCache[S_DEV].accessToken = <<"z">>
    /\ \E r \in Reqs :
          /\ req[r].pc = "page"
          /\ SlotOf(req[r].body) = S_DEV
          /\ req[r].token = <<"a">>
    /\ tokenCache[S_PRD].accessToken = <<>>

\* the field key of a declared name
DeclaredKey(name) ==
    CASE name = <<"A">> -> <<"a">>
      [] name = <<"C", "H", "A", "N", "N", "E", "L">> -> S_channel
      [] OTHER -> S_order_type

\* C37: the configured field set handed to buildTermQueries holds exactly the
\* declared fields that have a remote name, each with that remote name; a values
\* variable adds no field to it.
C37_ValuesVariablesAreNotFields ==
    kout # <<>> =>
        {kout[1].fields[i] : i \in 1..Len(kout[1].fields)} =
            {<<DeclaredKey(kin.declared[i].name), kin.declared[i].remote>> :
                i \in {j \in 1..Len(kin.declared) : kin.declared[j].remote # <<>>}}

\* C38: the loading flag is true whenever a POST is in flight; and once no POST is
\* in flight and none has failed since the last selection, rawData holds the answer
\* to the POST for the current startDate, endDate, orderType and environment.
C38_LatestSelectionWins ==
    /\ app.inflight # <<>> => app.loading
    /\ (app.inflight = <<>> /\ ~app.error /\ app.rawData # NoRawData) =>
           app.rawFor = <<FetchParams(app)>>

\* two bodies that differ at most in the letter case of the environment name
SameButCase(a, b) ==
    /\ SameIgnoringCase(OrElse(a.environment, S_DEV), OrElse(b.environment, S_DEV))
    /\ a.startDate = b.startDate
    /\ a.endDate = b.endDate
    /\ SameEntries(a.otherFilters, b.otherFilters)

\* C39: a request arriving while the result of a request that differs from it only
\* in the letter case of the environment name is stored and not older than 30
\* minutes is answered from the cache with that result.
C39_CacheKeyIgnoresEnvironmentCase ==
    [][\A r \in Reqs, b \in EnvBodies, b0 \in EnvBodies :
        (/\ Receive(r, b)
         /\ SameButCase(b, b0)
         /\ CacheKeyOf(b0) \in DOMAIN stored
         /\ now < stored[CacheKeyOf(b0)].at + 1800000)
        => /\ ServedFromCache(req'[r])
           /\ req'[r].res.hits = stored[CacheKeyOf(b0)].hits]_vars

====
